---------------------------- MODULE Spec2Model ----------------------------
(***************************************************************************)
(* Model of the Kuzzle SDK core (src/src/Kuzzle.ts): the query dispatcher  *)
(* with its offline queue, the connection state machine with token         *)
(* re-authentication, and the protected-event emitter.                      *)
(*                                                                         *)
(* The SDK runs on one cooperative scheduler: every action below is one    *)
(* run-to-completion task (an API call, a transport event with all of its  *)
(* registered listeners, a timer, or the continuation of an await).        *)
(* Handlers are written as state transformers over the record Cur, so that *)
(* a handler that calls another one (query -> _cleanQueue -> emit) is the  *)
(* composition of their operators, as in the source.                       *)
(*                                                                         *)
(* Time is a logical clock counted from a large epoch: Date.now() is never *)
(* 0, so a timestamp is always truthy and NoTime stands for null/undefined.*)
(***************************************************************************)
EXTENDS Integers, Sequences, FiniteSets, TLC

\* ------------------------------------------------------------ bounds
MaxTime == 2          \* the clock runs over 0..MaxTime
MaxReq == 2           \* number of query() calls
MaxProcs == 1         \* pending async continuations
MaxListeners == 2     \* connect() calls that register transport listeners
MaxTotal == 5         \* largest total of a search
MaxRooms == 2         \* realtime.subscribe calls made by the observer
MaxLoaded == 2        \* entries the offlineQueueLoader returns at most

\* the options the SDK is constructed with
Options(aq, ar, qf, qms, ttl, ri, et, tei, au) ==
  [autoQueue |-> aq, autoReplay |-> ar, queueFilter |-> qf,
   queueMaxSize |-> qms, queueTTL |-> ttl, replayInterval |-> ri,
   eventTimeout |-> et, tokenExpiredInterval |-> tei, authenticator |-> au]

\* connection and re-authentication, with auto-queue on
ConnOptions ==
  {Options(TRUE, ar, FALSE, 0, 0, 0, 0, 1, au) :
     ar \in BOOLEAN, au \in BOOLEAN}

\* token expiry and protected events, with every pair of windows
AuthOptions ==
  {Options(FALSE, FALSE, FALSE, 0, 0, 0, et, tei, au) :
     et \in {0, 1, 2}, tei \in {1, 2}, au \in BOOLEAN}

\* the offline queue
QueueOptions ==
  {Options(TRUE, TRUE, FALSE, 0, 1, 1, 2, 1, FALSE),
   Options(TRUE, TRUE, FALSE, 1, 0, 0, 2, 1, FALSE),
   Options(TRUE, FALSE, TRUE, 1, 1, 1, 2, 1, FALSE),
   Options(FALSE, FALSE, TRUE, 1, 1, 1, 0, 1, FALSE)}

\* options of the runs that call connect() again: with and without autoQueue
ConnectOptions ==
  {Options(aq, TRUE, FALSE, 0, 0, 0, 1, 1, FALSE) : aq \in BOOLEAN}

\* options of the request-timeout runs: a queue that evicts by size and
\* replays at once, and one that evicts by age and replays on a timer
RequestOptions ==
  {Options(TRUE, TRUE, FALSE, 1, 0, 0, 0, 1, FALSE)
     @@ [requestTimeout |-> 0 - 1],
   Options(TRUE, TRUE, FALSE, 0, 1, 1, 0, 1, FALSE)
     @@ [requestTimeout |-> 1]}

\* options of the runs with an offlineQueueLoader: auto-queue and auto-replay
\* with no replay interval
LoaderOptions ==
  {Options(TRUE, TRUE, FALSE, 0, 0, 0, 0, 1, FALSE)
     @@ [offlineQueueLoader |-> TRUE]}

\* options of the re-authentication runs: no queue, with and without an
\* authenticator
ReauthOptions ==
  {Options(FALSE, FALSE, FALSE, 0, 0, 0, 0, 1, au) : au \in BOOLEAN}

\* the value of options.timeout tried against the default in force: an
\* immediate timeout where the default is none, none where there is one
Timeouts(default) == IF default = 0 - 1 THEN {0} ELSE {0 - 1}

NoTime == 0 - 1

VARIABLES
  \* constructor options (Kuzzle.ts 310-338, 247-248, 70)
  autoQueue, autoReplay, queueFilter, queueMaxSize, queueTTL, replayInterval,
  eventTimeout, tokenExpiredInterval, authenticator,
  requestTimeout,       \* _requestTimeout
  offlineQueueLoader,   \* _offlineQueueLoader is a function
  \* SDK state
  queuing,              \* _queuing
  offlineQueue,         \* _offlineQueue: sequence of [id, ts, timeout]
  loggedIn,             \* _loggedIn
  reconnectInProgress,  \* _reconnectInProgress
  lastTokenExpired,     \* _lastTokenExpired
  lastEmitted,          \* _protectedEvents[ev].lastEmitted
  listeners,            \* how many times connect() registered its listeners
  loops,                \* due times of the pending dequeuingProcess timers
  procs,                \* async functions suspended at an await
  loaders,              \* pending calls of the offlineQueueLoader
  loaderResult,         \* what the offlineQueueLoader resolved to in the
                        \* last task
  \* environment
  now,                  \* Date.now()
  pstate,               \* transport: "offline" | "connecting" | "connected"
  wasConnected,         \* transport: has been connected before
  token,                \* held token: "none" | "valid" | "invalid"
  \* realtime document observer (src/unnamed/part_004)
  documentsByCollection, \* collection -> its ObservedDocuments object, 0: none
  buckets,              \* the ObservedDocuments objects: [ids, roomId]
  documents,            \* the tracked documents, as <<collection, id>>
  rtDocuments,          \* the RealtimeDocument objects made so far: [coll,
                        \* id, source, deleted], `tracked` when the object
                        \* is the value of its key in this.documents, `gone`
                        \* once its id was stopped or notified as deleted
  rooms,                \* realtime.subscribe calls: [coll, filter, bucket,
                        \* state]
  disturbed,            \* collections touched by a stop or a delete
  \* search result cursor
  cursor,               \* the cursor next() is called on
  answer,               \* what the last next() call did
  chain,                \* the cursors next() was called on before, oldest
                        \* first, as they are now
  \* observation
  nextId,               \* id of the next query() call (enqueue order)
  sent,                 \* calls of protocol.query: sequence of [id, replay]
  promises,             \* per request: the caller's promise, the transport's
                        \* promise and the due time of the timeout timer
  out                   \* what the last task did

cfgVars == <<autoQueue, autoReplay, queueFilter, queueMaxSize, queueTTL,
             replayInterval, eventTimeout, tokenExpiredInterval, authenticator,
             requestTimeout, offlineQueueLoader>>

vars == <<autoQueue, autoReplay, queueFilter, queueMaxSize, queueTTL,
          replayInterval, eventTimeout, tokenExpiredInterval, authenticator,
          requestTimeout, offlineQueueLoader,
          queuing, offlineQueue, loggedIn, reconnectInProgress,
          lastTokenExpired, lastEmitted, listeners, loops, procs,
          loaders, loaderResult, now, pstate, wasConnected, token, nextId, sent, promises, out,
          documentsByCollection, buckets, documents, rtDocuments, rooms,
          disturbed,
          cursor, answer, chain>>

cursorVars == <<cursor, answer, chain>>

obsVars ==
  <<documentsByCollection, buckets, documents, rtDocuments, rooms, disturbed>>

\* everything of the SDK core but the record of the last task
sdkVars == <<autoQueue, autoReplay, queueFilter, queueMaxSize, queueTTL,
             replayInterval, eventTimeout, tokenExpiredInterval,
             authenticator, requestTimeout, offlineQueueLoader, queuing,
             offlineQueue, loggedIn,
             reconnectInProgress, lastTokenExpired, lastEmitted, listeners,
             loops, procs, loaders, loaderResult, now, pstate, wasConnected,
             token, nextId, sent, promises>>

\* the collections and document ids the observer is driven with
Colls == {"a", "b"}

DocIds == {1, 2}

ProtectedEvents ==
  {"connected", "disconnected", "error", "loginAttempt", "reconnected",
   "tokenExpired"}

Ids == 1 .. MaxReq

\* the entries of a loaded batch, by position: each comes with its own
\* resolve and reject
LoadedIds == MaxReq + 1 .. MaxReq + MaxLoaded

\* the timeout value that means "no timeout"
NoTimeout == 0 - 1

\* a request that was not issued yet
NoPromise ==
  [caller |-> "none", transport |-> "none", delay |-> NoTimeout,
   due |-> NoTime]

\* no notification was handled by the task
NoNotification == [event |-> "-", coll |-> "-", id |-> 0, source |-> <<>>]

NoOut == [op |-> "init", kind |-> "-", pc |-> "-", r |-> "-",
          emits |-> <<>>, drops |-> <<>>, nsent |-> 0, ret |-> "-",
          n |-> NoNotification]

\* ------------------------------------------------------------ state record
Cur ==
  [queuing |-> queuing, offlineQueue |-> offlineQueue, loggedIn |-> loggedIn,
   reconnectInProgress |-> reconnectInProgress,
   lastTokenExpired |-> lastTokenExpired, lastEmitted |-> lastEmitted,
   listeners |-> listeners, loops |-> loops, procs |-> procs,
   loaders |-> loaders, loaderResult |-> loaderResult, now |-> now,
   pstate |-> pstate, wasConnected |-> wasConnected, token |-> token,
   sent |-> sent, promises |-> promises, out |-> out]

Begin(op, kind, pc, r) ==
  [Cur EXCEPT !.out = [op |-> op, kind |-> kind, pc |-> pc, r |-> r,
                       emits |-> <<>>, drops |-> <<>>, nsent |-> 0,
                       ret |-> "-", n |-> NoNotification],
              !.loaderResult = <<>>]

\* the state s of a task that ends is stored
Store(s) ==
  /\ queuing' = s.queuing
  /\ offlineQueue' = s.offlineQueue
  /\ loggedIn' = s.loggedIn
  /\ reconnectInProgress' = s.reconnectInProgress
  /\ lastTokenExpired' = s.lastTokenExpired
  /\ lastEmitted' = s.lastEmitted
  /\ listeners' = s.listeners
  /\ loops' = s.loops
  /\ procs' = s.procs
  /\ loaders' = s.loaders
  /\ loaderResult' = s.loaderResult
  /\ now' = s.now
  /\ pstate' = s.pstate
  /\ wasConnected' = s.wasConnected
  /\ token' = s.token
  /\ sent' = s.sent
  /\ promises' = s.promises
  /\ out' = s.out
  /\ UNCHANGED cfgVars
  /\ UNCHANGED obsVars
  /\ UNCHANGED cursorVars

\* a task ends within the bound on pending continuations
Commit(s) ==
  /\ Len(s.procs) <= MaxProcs
  /\ s.loaders <= MaxProcs
  /\ Store(s)

\* the task of a transport event ends; an event that arrives during a
\* re-authentication is let through whatever it starts
CommitEvent(s) ==
  /\ reconnectInProgress \/ Len(s.procs) <= MaxProcs
  /\ s.loaders <= MaxProcs
  /\ Store(s)

RemoveAt(q, i) == SubSeq(q, 1, i - 1) \o SubSeq(q, i + 1, Len(q))

Max(a, b) == IF a >= b THEN a ELSE b

\* ------------------------------------------------------------ emitter
isAuthenticatedCall(s) ==
  [s EXCEPT !.procs = Append(@, [kind |-> "check", pc |-> "check"])]

\* the listeners the constructor registers on the SDK's own events
ownListeners(s, ev, success) ==
  CASE ev = "loginAttempt" ->
         IF success THEN [s EXCEPT !.loggedIn = TRUE]
         ELSE isAuthenticatedCall(s)
    [] ev = "logoutAttempt" ->
         IF success THEN [s EXCEPT !.loggedIn = FALSE] ELSE s
    [] ev = "connected" -> isAuthenticatedCall(s)
    [] OTHER -> s

\* mutant: a dropped emission restarts the window
emitPMovesWindow(s, ev, success) ==
  LET isProtected == ev \in ProtectedEvents
      prev == IF isProtected THEN s.lastEmitted[ev] ELSE NoTime
  IN IF isProtected /\ prev # NoTime /\ prev > s.now - eventTimeout
     THEN [s EXCEPT !.lastEmitted[ev] = s.now,
                    !.out.emits =
                      Append(@, [ev |-> ev, ok |-> FALSE, prev |-> prev])]
     ELSE LET t == IF isProtected
                   THEN [s EXCEPT !.lastEmitted[ev] = s.now]
                   ELSE s
              u == [t EXCEPT !.out.emits =
                      Append(@, [ev |-> ev, ok |-> TRUE, prev |-> prev])]
          IN ownListeners(u, ev, success)

emitP(s, ev, success) ==
  LET isProtected == ev \in ProtectedEvents
      prev == IF isProtected THEN s.lastEmitted[ev] ELSE NoTime
  IN IF isProtected /\ prev # NoTime /\ prev > s.now - eventTimeout
     THEN [s EXCEPT !.out.emits =
                      Append(@, [ev |-> ev, ok |-> FALSE, prev |-> prev])]
     ELSE LET t == IF isProtected
                   THEN [s EXCEPT !.lastEmitted[ev] = s.now]
                   ELSE s
              u == [t EXCEPT !.out.emits =
                      Append(@, [ev |-> ev, ok |-> TRUE, prev |-> prev])]
          IN ownListeners(u, ev, success)

emit(s, ev) == emitP(s, ev, TRUE)

\* ------------------------------------------------------------ transport
isReady(s) == s.pstate = "connected"

protocolConnect(s) == [s EXCEPT !.pstate = "connecting"]

protocolClose(s) == [s EXCEPT !.pstate = "offline", !.wasConnected = FALSE]

protocolQuery(s, id, replay) ==
  [s EXCEPT !.sent = Append(@, [id |-> id, replay |-> replay]),
            !.out.nsent = @ + 1]

\* mutant: the timer is armed whatever the delay
timeoutRequestAlwaysTimed(s, id, delay, replay) ==
  LET a == protocolQuery(s, id, replay)
  IN [a EXCEPT !.promises[id].caller = "pending",
               !.promises[id].transport = "pending",
               !.promises[id].delay = delay,
               !.promises[id].due = s.now + Max(0, delay)]

\* _timeoutRequest: the request goes to the transport and, unless the delay
\* is -1, the caller's promise races it against a timer
timeoutRequest(s, id, delay, replay) ==
  LET a == protocolQuery(s, id, replay)
      b == [a EXCEPT !.promises[id].caller = "pending",
                     !.promises[id].transport = "pending",
                     !.promises[id].delay = delay]
  IN IF delay = NoTimeout THEN b
     ELSE [b EXCEPT !.promises[id].due = s.now + Max(0, delay)]

\* mutant: a timeout also abandons the replay of the queue
requestTimerStopsReplay(s, id) ==
  [s EXCEPT !.promises[id].due = NoTime,
            !.promises[id].caller = IF @ = "pending" THEN "timeout" ELSE @,
            !.loops = <<>>]

\* the timer of _timeoutRequest fires: reject, a no-op on a settled promise
requestTimer(s, id) ==
  [s EXCEPT !.promises[id].due = NoTime,
            !.promises[id].caller = IF @ = "pending" THEN "timeout" ELSE @]

\* the promise of protocol.query settles, and with it a pending caller
protocolAnswer(s, id, result) ==
  [s EXCEPT !.promises[id].transport = result,
            !.promises[id].caller = IF @ = "pending" THEN result ELSE @]

\* ------------------------------------------------------------ offline queue
startQueuing(s) == [s EXCEPT !.queuing = TRUE]

stopQueuing(s) == [s EXCEPT !.queuing = FALSE]

flushQueue(s) == [s EXCEPT !.offlineQueue = <<>>]

RECURSIVE dropEntries(_, _, _)
\* splice(0, n).forEach: emit offlineQueuePop and reject with `why`
dropEntries(s, n, why) ==
  IF n = 0 THEN s
  ELSE LET e == Head(s.offlineQueue)
           t == [s EXCEPT !.offlineQueue = Tail(@),
                          !.out.drops = Append(@, [id |-> e.id, why |-> why])]
           u == emit(t, "offlineQueuePop")
           v == [u EXCEPT !.promises[e.id].caller = why]
       IN dropEntries(v, n - 1, why)

lastExpiredIndex(s) ==
  LET E == {i \in 1 .. Len(s.offlineQueue) :
              s.offlineQueue[i].ts < s.now - queueTTL}
  IN IF E = {} THEN 0 ELSE CHOOSE i \in E : \A j \in E : j <= i

cleanQueueTTL(s) ==
  IF queueTTL > 0 THEN dropEntries(s, lastExpiredIndex(s), "ttl") ELSE s

cleanQueueMaxSize(s) ==
  IF queueMaxSize > 0 /\ Len(s.offlineQueue) > queueMaxSize
  THEN dropEntries(s, Len(s.offlineQueue) - queueMaxSize, "maxsize")
  ELSE s

cleanQueue(s) == cleanQueueMaxSize(cleanQueueTTL(s))

\* mutant: the loop replays the newest entry first
dequeuingProcessNewestFirst(s) ==
  IF Len(s.offlineQueue) > 0
  THEN LET n == Len(s.offlineQueue)
           e == s.offlineQueue[n]
           a == timeoutRequest(s, e.id, e.timeout, TRUE)
           b == emit(a, "offlineQueuePop")
       IN [b EXCEPT !.offlineQueue = SubSeq(@, 1, n - 1),
                    !.loops = Append(@, s.now + Max(0, replayInterval))]
  ELSE s

dequeuingProcess(s) ==
  IF Len(s.offlineQueue) > 0
  THEN LET e == Head(s.offlineQueue)
           a == timeoutRequest(s, e.id, e.timeout, TRUE)
           b == emit(a, "offlineQueuePop")
       IN [b EXCEPT !.offlineQueue = Tail(@),
                    !.loops = Append(@, s.now + Max(0, replayInterval))]
  ELSE s

\* the requestId of a queue entry: a loaded entry carries its own, an entry
\* queued by query() the one of its request
requestId(e) == IF e.id \in LoadedIds THEN e.requestId ELSE e.id

\* the entry has a request with a requestId, an action and a controller
wellFormed(e) == IF e.id \in LoadedIds THEN e.valid ELSE TRUE

RECURSIVE filterUnique(_, _)
\* filter(): q without the entries whose requestId is in seen or is the one
\* of an earlier entry of q
filterUnique(q, seen) ==
  IF q = <<>> THEN <<>>
  ELSE IF requestId(Head(q)) \in seen
       THEN filterUnique(Tail(q), seen)
       ELSE <<Head(q)>>
              \o filterUnique(Tail(q), seen \cup {requestId(Head(q))})

\* only the loaded batch goes through the filter
uniqueQueueOfLoaded(additionalQueue, queue) ==
  filterUnique(additionalQueue, {}) \o queue

\* additionalQueue.concat(offlineQueue).filter(...): the first entry of
\* each requestId
uniqueQueue(additionalQueue, queue) ==
  filterUnique(additionalQueue \o queue, {})

\* what the loader resolved to when it is not an array
NotArray == <<[id |-> 0]>>

\* an entry without the required properties is left out of the replay
loadedSkipsInvalid(s, additionalQueue) ==
  IF additionalQueue = NotArray THEN [s EXCEPT !.out.r = "throws"]
  ELSE dequeuingProcess(
         [s EXCEPT !.offlineQueue =
                     SelectSeq(uniqueQueue(additionalQueue, @), wellFormed),
                   !.out.r = "loaded"])

\* _dequeue once the loader has resolved: the batch goes in front of the
\* queue and the replay starts, or the promise is rejected
loaded(s, additionalQueue) ==
  IF additionalQueue = NotArray THEN [s EXCEPT !.out.r = "throws"]
  ELSE LET all == additionalQueue \o s.offlineQueue
       IN IF \E i \in 1 .. Len(all) : ~wellFormed(all[i])
          THEN [s EXCEPT !.out.r = "throws"]
          ELSE dequeuingProcess(
                 [s EXCEPT !.offlineQueue = uniqueQueue(additionalQueue, @),
                           !.out.r = "loaded"])

\* _dequeue: the replay starts at once, or when the loader has resolved
dequeue(s) ==
  IF offlineQueueLoader
  THEN [s EXCEPT !.loaders = @ + 1]
  ELSE dequeuingProcess(s)

\* mutant: the replay starts without cleaning the queue
playQueueUncleaned(s) == IF isReady(s) THEN dequeue(s) ELSE s

playQueue(s) == IF isReady(s) THEN dequeue(cleanQueue(s)) ELSE s

\* mutant: options.queuable and the queueFilter answer are ignored
queryAlwaysQueuable(s, id, optQueuable, filterOk, hasTimeout, optTimeout) ==
  LET delay == IF hasTimeout THEN optTimeout ELSE requestTimeout
  IN IF s.queuing
     THEN LET c == emit(cleanQueue(s), "offlineQueuePush")
          IN [c EXCEPT !.offlineQueue =
                         Append(@, [id |-> id, ts |-> s.now,
                                    timeout |-> delay]),
                       !.promises[id].caller = "pending",
                       !.out.r = "queued"]
     ELSE [timeoutRequest(s, id, delay, FALSE) EXCEPT !.out.r = "sent"]

query(s, id, optQueuable, filterOk, hasTimeout, optTimeout) ==
  LET queuable == optQueuable /\ (queueFilter => filterOk)
      delay == IF hasTimeout THEN optTimeout ELSE requestTimeout
  IN IF s.queuing
     THEN IF queuable
          THEN LET c == emit(cleanQueue(s), "offlineQueuePush")
               IN [c EXCEPT !.offlineQueue =
                              Append(@, [id |-> id, ts |-> s.now,
                                         timeout |-> delay]),
                            !.promises[id].caller = "pending",
                            !.out.r = "queued"]
          ELSE [emit(s, "discarded")
                  EXCEPT !.promises[id].caller = "discarded",
                         !.out.r = "rejected"]
     ELSE [timeoutRequest(s, id, delay, FALSE) EXCEPT !.out.r = "sent"]

\* ------------------------------------------------------------ connection
\* mutant: connect() does not ask the transport whether it is ready
connectAlways(s) ==
  LET a == IF autoQueue THEN startQueuing(s) ELSE s
  IN protocolConnect([a EXCEPT !.listeners = @ + 1])

connect(s) ==
  IF isReady(s) THEN s
  ELSE LET a == IF autoQueue THEN startQueuing(s) ELSE s
       IN protocolConnect([a EXCEPT !.listeners = @ + 1])

disconnect(s) == protocolClose([s EXCEPT !.loggedIn = FALSE])

connectListener(s) ==
  LET a == IF autoQueue THEN stopQueuing(s) ELSE s
      b == IF autoReplay THEN playQueue(a) ELSE a
  IN emit(b, "connected")

\* mutant: a network error does not start the queuing
networkErrorListenerNoQueue(s) == emit(s, "networkError")

networkErrorListener(s) ==
  emit(IF autoQueue THEN startQueuing(s) ELSE s, "networkError")

disconnectListener(s) == emit(s, "disconnected")

\* _reconnect after a successful (or skipped) re-authentication
reconnectTail(s) ==
  emit(IF autoReplay THEN playQueue(s) ELSE s, "reconnected")

\* mutant: a failed re-authentication logs out but keeps the transport open
reconnectFailedNoClose(s) == [s EXCEPT !.loggedIn = FALSE]

\* _reconnect after a failed re-authentication
reconnectFailed(s) == disconnect([s EXCEPT !.loggedIn = FALSE])

\* tryReAuthenticate up to its first await
tryReAuthenticateCall(s, kind) ==
  [s EXCEPT !.reconnectInProgress = TRUE,
            !.procs = Append(@, [kind |-> kind, pc |-> "check1"])]

\* the reconnect event is handled whatever is in progress
reconnectListenerUnguarded(s) ==
  LET a == IF autoQueue THEN stopQueuing(s) ELSE s
  IN IF a.loggedIn THEN tryReAuthenticateCall(a, "reconnect")
     ELSE reconnectTail(a)

reconnectListener(s) ==
  IF s.reconnectInProgress THEN s
  ELSE LET a == IF autoQueue THEN stopQueuing(s) ELSE s
       IN IF a.loggedIn THEN tryReAuthenticateCall(a, "reconnect")
          ELSE reconnectTail(a)

setJwtNull(s) == [s EXCEPT !.token = "none", !.loggedIn = FALSE]

\* mutant: the throttle also swallows an expiry exactly one interval later
expireInclusive(s) ==
  IF s.lastTokenExpired # NoTime
     /\ s.now - s.lastTokenExpired <= tokenExpiredInterval
  THEN s
  ELSE emit(setJwtNull([s EXCEPT !.lastTokenExpired = s.now]), "tokenExpired")

\* tokenExpired from the throttle on
expire(s) ==
  IF s.lastTokenExpired # NoTime
     /\ s.now - s.lastTokenExpired < tokenExpiredInterval
  THEN s
  ELSE emit(setJwtNull([s EXCEPT !.lastTokenExpired = s.now]), "tokenExpired")

\* the expiry is handled whatever is in progress
tokenExpiredUnguarded(s) ==
  IF s.loggedIn THEN tryReAuthenticateCall(s, "tokenExpired")
  ELSE expire(s)

tokenExpired(s) ==
  IF s.reconnectInProgress THEN s
  ELSE IF s.loggedIn THEN tryReAuthenticateCall(s, "tokenExpired")
       ELSE expire(s)

RECURSIVE connectListeners(_, _)
connectListeners(s, n) ==
  IF n = 0 THEN s ELSE connectListeners(connectListener(s), n - 1)

RECURSIVE networkErrorListeners(_, _)
networkErrorListeners(s, n) ==
  IF n = 0 THEN s ELSE networkErrorListeners(networkErrorListener(s), n - 1)

RECURSIVE disconnectListeners(_, _)
disconnectListeners(s, n) ==
  IF n = 0 THEN s ELSE disconnectListeners(disconnectListener(s), n - 1)

RECURSIVE reconnectListeners(_, _)
reconnectListeners(s, n) ==
  IF n = 0 THEN s ELSE reconnectListeners(reconnectListener(s), n - 1)

RECURSIVE tokenExpiredListeners(_, _)
tokenExpiredListeners(s, n) ==
  IF n = 0 THEN s ELSE tokenExpiredListeners(tokenExpired(s), n - 1)

\* ------------------------------------------------------------ awaits
\* what auth.checkToken answers for the held token
CheckResults(s) ==
  IF s.token = "valid" THEN {"valid", "throws"} ELSE {"invalid", "throws"}

\* mutant: tokenExpired goes on to the throttle after a successful
\* re-authentication too
reauthReturnThenExpires(s, kind, ok) ==
  LET a == [s EXCEPT !.reconnectInProgress = FALSE,
                     !.out.ret = IF ok THEN "true" ELSE "false"]
  IN CASE kind = "reconnect" ->
            IF ok THEN reconnectTail(a) ELSE reconnectFailed(a)
       [] kind = "tokenExpired" ->
            IF ok THEN expire(emit(a, "reAuthenticated")) ELSE expire(a)

\* tryReAuthenticate returns `ok`: the finally block, then the caller resumes
reauthReturn(s, kind, ok) ==
  LET a == [s EXCEPT !.reconnectInProgress = FALSE,
                     !.out.ret = IF ok THEN "true" ELSE "false"]
  IN CASE kind = "reconnect" ->
            IF ok THEN reconnectTail(a) ELSE reconnectFailed(a)
       [] kind = "tokenExpired" ->
            IF ok THEN emit(a, "reAuthenticated") ELSE expire(a)

\* mutant: the failure is returned without the reconnectionError event
reauthFailSilent(s, kind) == reauthReturn(s, kind, FALSE)

reauthFail(s, kind) == reauthReturn(emit(s, "reconnectionError"), kind, FALSE)

\* tryReAuthenticate resumed after `await this.isAuthenticated()`
afterCheck1(s, kind, r) ==
  CASE r = "valid" -> reauthReturn(s, kind, TRUE)
    [] r = "invalid" ->
         IF ~authenticator THEN reauthFail(s, kind)
         ELSE [s EXCEPT !.procs = Append(@, [kind |-> kind, pc |-> "auth"])]
    [] OTHER -> reauthFail(s, kind)

\* authenticate resumed after `await this.authenticator()`
afterAuthenticator(s, kind, r) ==
  IF r = "ok"
  THEN [s EXCEPT !.procs = Append(@, [kind |-> kind, pc |-> "check2"])]
  ELSE reauthFail(s, kind)

\* the re-authentication succeeds once the authenticator has run
afterCheck2TrustsAuthenticator(s, kind, r) ==
  CASE r = "valid" -> reauthReturn([s EXCEPT !.loggedIn = TRUE], kind, TRUE)
    [] r = "invalid" -> reauthReturn([s EXCEPT !.loggedIn = FALSE], kind, TRUE)
    [] OTHER -> reauthFail(s, kind)

\* authenticate resumed after its own `await this.isAuthenticated()`
afterCheck2(s, kind, r) ==
  CASE r = "valid" -> reauthReturn([s EXCEPT !.loggedIn = TRUE], kind, TRUE)
    [] r = "invalid" -> reauthFail([s EXCEPT !.loggedIn = FALSE], kind)
    [] OTHER -> reauthFail(s, kind)

\* the loginAttempt and connected listeners resumed after `await`
afterCheck(s, r) == [s EXCEPT !.loggedIn = (r = "valid")]

resume(s, p, r) ==
  CASE p.pc = "check" -> afterCheck(s, r)
    [] p.pc = "check1" -> afterCheck1(s, p.kind, r)
    [] p.pc = "auth" -> afterAuthenticator(s, p.kind, r)
    [] p.pc = "check2" -> afterCheck2(s, p.kind, r)

\* ------------------------------------------------------------ observer
ObsCur ==
  [documentsByCollection |-> documentsByCollection, buckets |-> buckets,
   documents |-> documents, rtDocuments |-> rtDocuments, rooms |-> rooms,
   disturbed |-> disturbed, raised |-> FALSE, notified |-> NoNotification]

\* the fields of a document's content
Fields == {"f", "g"}

\* `new RealtimeDocument(document)` for a document fetched from the server:
\* every field holds the fetched value 2, a write notifies the value 1
RealtimeDocument(c, d) ==
  [coll |-> c, id |-> d, source |-> [k \in Fields |-> 2], deleted |-> FALSE,
   tracked |-> TRUE, gone |-> FALSE]

\* the objects once the keys K have left this.documents; the application
\* gave them up when `given`
withoutKeys(rt, K, given) ==
  [k \in DOMAIN rt |->
     IF <<rt[k].coll, rt[k].id>> \in K
     THEN [rt[k] EXCEPT !.tracked = FALSE, !.gone = @ \/ given]
     ELSE rt[k]]

\* this.documents.set(urn, rtDocument)
documentsSet(o, c, d) ==
  [o EXCEPT !.documents = @ \cup {<<c, d>>},
            !.rtDocuments = Append(withoutKeys(@, {<<c, d>>}, FALSE),
                                   RealtimeDocument(c, d))]

\* this.documents.delete(urn) for each key of K
documentsDelete(o, K) ==
  [o EXCEPT !.documents = @ \ K,
            !.rtDocuments = withoutKeys(@, K, TRUE)]

\* this.documents.get(urn): the index of the object, 0 when undefined
documentsGet(o, c, d) ==
  LET S == {k \in DOMAIN o.rtDocuments :
              /\ o.rtDocuments[k].coll = c
              /\ o.rtDocuments[k].id = d
              /\ o.rtDocuments[k].tracked}
  IN IF S = {} THEN 0 ELSE CHOOSE k \in S : TRUE

\* realtime.subscribe: the request is in flight, its `then` holds bucket b
realtimeSubscribe(o, c, filter, b) ==
  [o EXCEPT !.rooms = Append(@, [coll |-> c, filter |-> filter,
                                  bucket |-> b, state |-> "subscribing"])]

\* realtime.unsubscribe: the request is in flight
realtimeUnsubscribe(o, r) ==
  IF r # 0 /\ o.rooms[r].state = "active"
  THEN [o EXCEPT !.rooms[r].state = "unsubscribing"]
  ELSE o

\* mutant: every call makes a new ObservedDocuments object for the collection
addDocumentNewBucket(o, c, d) ==
  LET a == [o EXCEPT !.buckets = Append(@, [ids |-> {}, roomId |-> 0]),
                     !.documentsByCollection[c] = Len(o.buckets) + 1]
      b == a.documentsByCollection[c]
  IN documentsSet([a EXCEPT !.buckets[b].ids = @ \cup {d}], c, d)

addDocument(o, c, d) ==
  LET a == IF o.documentsByCollection[c] = 0
           THEN [o EXCEPT !.buckets = Append(@, [ids |-> {}, roomId |-> 0]),
                          !.documentsByCollection[c] = Len(o.buckets) + 1]
           ELSE o
      b == a.documentsByCollection[c]
  IN documentsSet([a EXCEPT !.buckets[b].ids = @ \cup {d}], c, d)

\* mutant: the previous room is unsubscribed before the new one is asked for
resubscribeUnsubscribesFirst(o, c) ==
  LET b == o.documentsByCollection[c]
  IN IF b = 0 THEN o
     ELSE IF o.buckets[b].ids = {}
          THEN realtimeUnsubscribe(o, o.buckets[b].roomId)
          ELSE realtimeSubscribe(realtimeUnsubscribe(o, o.buckets[b].roomId),
                                 c, o.buckets[b].ids, b)

resubscribe(o, c) ==
  LET b == o.documentsByCollection[c]
  IN IF b = 0 THEN o
     ELSE IF o.buckets[b].ids = {}
          THEN realtimeUnsubscribe(o, o.buckets[b].roomId)
          ELSE realtimeSubscribe(o, c, o.buckets[b].ids, b)

\* the `then` of resubscribe once room r is confirmed
subscribed(o, r) ==
  LET b == o.rooms[r].bucket
      oldRoomId == o.buckets[b].roomId
      a == [o EXCEPT !.rooms[r].state = "active", !.buckets[b].roomId = r]
  IN IF oldRoomId # 0 THEN realtimeUnsubscribe(a, oldRoomId) ELSE a

observe(o, c, d) == resubscribe(addDocument(o, c, d), c)

disposeDocuments(o, c, D) ==
  LET b == o.documentsByCollection[c]
      a == [documentsDelete(o, {<<c, d>> : d \in D})
              EXCEPT !.buckets[b].ids = @ \ D]
      e == IF a.buckets[b].ids = {}
           THEN [a EXCEPT !.documentsByCollection[c] = 0]
           ELSE a
  IN resubscribe(e, c)

\* mutant: stopping one collection forgets every collection
disposeCollectionForgetsAll(o, c) ==
  LET b == o.documentsByCollection[c]
      a == [documentsDelete(o, o.documents)
              EXCEPT !.documentsByCollection = [x \in Colls |-> 0]]
  IN realtimeUnsubscribe(a, o.buckets[b].roomId)

disposeCollection(o, c) ==
  LET b == o.documentsByCollection[c]
      a == [documentsDelete(o, {<<c, d>> : d \in o.buckets[b].ids})
              EXCEPT !.documentsByCollection[c] = 0]
  IN realtimeUnsubscribe(a, o.buckets[b].roomId)

RECURSIVE unsubscribeAll(_, _)
\* the loop of disposeAll over the buckets still to visit
unsubscribeAll(o, B) ==
  IF B = {} THEN o
  ELSE LET b == CHOOSE x \in B : TRUE
       IN unsubscribeAll(realtimeUnsubscribe(o, o.buckets[b].roomId),
                         B \ {b})

disposeAll(o) ==
  LET B == {o.documentsByCollection[c] : c \in Colls} \ {0}
      a == unsubscribeAll(o, B)
  IN [documentsDelete(a, a.documents)
        EXCEPT !.documentsByCollection = [c \in Colls |-> 0]]

\* the content a write notification carries: some fields with their values
Sources == {[k \in {"f"} |-> 1]}

\* Object.assign(rtDocument._source, result._source)
assign(target, source) ==
  [k \in Fields |-> IF k \in DOMAIN source THEN source[k] ELSE target[k]]

\* a property of `undefined` is read or written
TypeError(o) == [o EXCEPT !.raised = TRUE]

\* mutant: a write replaces the content of the document
notifiedWriteReplaces(o, rt, source) ==
  [o EXCEPT !.rtDocuments[rt].source =
              [k \in Fields |-> IF k \in DOMAIN source THEN source[k] ELSE 0]]

\* notificationHandler for a `write` event on the tracked object rt
notifiedWrite(o, rt, source) ==
  [o EXCEPT !.rtDocuments[rt].source = assign(@, source)]

\* notificationHandler for a `delete` event on the tracked object rt
notifiedDelete(o, rt, c, d) ==
  LET b == o.documentsByCollection[c]
      a == [documentsDelete([o EXCEPT !.rtDocuments[rt].deleted = TRUE],
                            {<<c, d>>})
              EXCEPT !.buckets[b].ids = @ \ {d}]
      e == IF a.buckets[b].ids = {}
           THEN [a EXCEPT !.documentsByCollection[c] = 0]
           ELSE a
  IN resubscribe(e, c)

\* notificationHandler for notification n: [event, coll, id, source]
notificationHandler(o, n) ==
  LET rtDocument == documentsGet(o, n.coll, n.id)
      a == [o EXCEPT !.notified = n]
  IN IF n.event # "delete"
     THEN IF n.event = "write"
          THEN IF rtDocument = 0 THEN TypeError(a)
               ELSE notifiedWrite(a, rtDocument, n.source)
          ELSE a
     ELSE IF rtDocument = 0 THEN TypeError(a)
          ELSE notifiedDelete(a, rtDocument, n.coll, n.id)

\* ------------------------------------------------------------ search cursor
\* a request field that is not set
NoField == 0 - 1

\* the request a cursor was made from: scroll is "" when not set, size and
\* from are NoField when not set, sort tells whether body.sort is set
SearchRequests ==
  [scroll : {"", "10s"}, size : {NoField, 1, 2}, sort : BOOLEAN,
   from : {NoField, 0, 2, 3}]

\* the server answers request r with a page of h hits out of total, read
\* from the offset `from`: a page is never longer than the size asked for,
\* and a page read from an offset is full unless it ends the results
Page(r, from, total, h) ==
  /\ h >= 1
  /\ r.size # NoField => h <= r.size
  /\ r.size # NoField /\ r.from # NoField /\ r.scroll = ""
       => from + h <= total /\ (h = r.size \/ from + h = total)

\* a cursor on a first page of `hits` hits out of `total`
Cursors ==
  {c \in [request : SearchRequests, hits : {1, 2}, fetched : {1, 2},
          total : 1 .. MaxTotal, scrollId : {1}] :
     /\ c.fetched = c.hits
     /\ c.fetched <= c.total
     /\ Page(c.request, c.request.from, c.total, c.hits)}

NoCursor ==
  [request |-> [scroll |-> "", size |-> NoField, sort |-> FALSE,
                from |-> NoField],
   hits |-> 0, fetched |-> 0, total |-> 0, scrollId |-> 0]

\* the query next() hands to the SDK; body tells whether the original
\* filter body is part of it
NoQuery ==
  [action |-> "-", scroll |-> "", scrollId |-> 0, body |-> FALSE,
   searchAfter |-> NoField, size |-> NoField, from |-> NoField]

NoAnswer == [kind |-> "none", query |-> NoQuery]

\* the scroll is re-issued as a copy of the originating request
nextScrollWithBody(cur) ==
  [kind |-> "query",
   query |-> [NoQuery EXCEPT !.action = "scroll",
                             !.scroll = cur.request.scroll,
                             !.scrollId = cur.scrollId,
                             !.body = TRUE,
                             !.size = cur.request.size,
                             !.from = cur.request.from]]

\* next() with a scroll duration
nextScroll(cur) ==
  [kind |-> "query",
   query |-> [NoQuery EXCEPT !.action = "scroll",
                             !.scroll = cur.request.scroll,
                             !.scrollId = cur.scrollId]]

\* next() with size and sort: search_after is taken from the last hit
nextSearchAfter(cur) ==
  [kind |-> "query",
   query |-> [NoQuery EXCEPT !.action = "search",
                             !.body = TRUE,
                             !.searchAfter = cur.fetched,
                             !.size = cur.request.size,
                             !.from = cur.request.from]]

\* the page read from the request's offset reaches the end of the results
lastPage(cur) == cur.request.from + cur.request.size >= cur.total

\* next() with size and from: the search is resubmitted from the number of
\* hits fetched so far
nextFromSize(cur) ==
  IF lastPage(cur)
  THEN [kind |-> "null", query |-> NoQuery]
  ELSE [kind |-> "query",
        query |-> [NoQuery EXCEPT !.action = "search",
                                  !.body = TRUE,
                                  !.size = cur.request.size,
                                  !.from = cur.fetched]]

\* a request that cannot be paged resolves as if nothing were left
cannotPaginateResolvesNull == [kind |-> "null", query |-> NoQuery]

\* next() with no pagination strategy: the "Unable to retrieve next results
\* from search" rejection
cannotPaginate == [kind |-> "error", query |-> NoQuery]

\* the pagination fields are looked at before the counters
nextWithoutFetchedTest(cur) ==
  IF cur.request.scroll # "" THEN nextScroll(cur)
  ELSE IF cur.fetched >= cur.total
       THEN [kind |-> "null", query |-> NoQuery]
       ELSE [kind |-> "error", query |-> NoQuery]

next(cur) ==
  IF cur.fetched >= cur.total THEN [kind |-> "null", query |-> NoQuery]
  ELSE IF cur.request.scroll # "" THEN nextScroll(cur)
  ELSE IF cur.request.size # NoField /\ cur.request.sort
       THEN nextSearchAfter(cur)
  ELSE IF cur.request.size # NoField /\ cur.request.from # NoField
       THEN nextFromSize(cur)
  ELSE cannotPaginate

\* the new cursor counts the hits of its own page only
buildNextSearchResultOwnPage(cur, q, h) ==
  [cur EXCEPT !.hits = h,
              !.fetched = h,
              !.request.from = IF q.action = "search" THEN q.from ELSE @,
              !.scrollId = IF q.action = "scroll" THEN @ + 1 ELSE @]

\* the cursor built from the answer to query q: a page of h hits for the
\* request as it was resubmitted, with a fresh scroll id when the page was
\* scrolled to; what the cursor it comes from had fetched is added to its
\* own hits
buildNextSearchResult(cur, q, h) ==
  [cur EXCEPT !.hits = h,
              !.fetched = cur.fetched + h,
              !.request.from = IF q.action = "search" THEN q.from ELSE @,
              !.scrollId = IF q.action = "scroll" THEN @ + 1 ELSE @]

\* the request of the new cursor is the object the old one holds
calledOnSharedRequest(cur, q) ==
  [cur EXCEPT !.request.from = IF q.action = "search" THEN q.from ELSE @]

\* the cursor next() was called on, once next() has resolved with query q
\* answered
calledOn(cur, q) == cur

\* ------------------------------------------------------------ actions
InitSdk ==
  /\ queuing = FALSE
  /\ offlineQueue = <<>>
  /\ loggedIn = FALSE
  /\ reconnectInProgress = FALSE
  /\ lastTokenExpired = NoTime
  /\ lastEmitted = [e \in ProtectedEvents |-> NoTime]
  /\ listeners = 0
  /\ loops = <<>>
  /\ procs = <<>>
  /\ loaders = 0
  /\ loaderResult = <<>>
  /\ now = 0
  /\ pstate = "offline"
  /\ wasConnected = FALSE
  /\ token = "none"
  /\ nextId = 1
  /\ sent = <<>>
  /\ promises = [i \in Ids \cup LoadedIds |-> NoPromise]
  /\ out = NoOut
  /\ documentsByCollection = [c \in Colls |-> 0]
  /\ buckets = <<>>
  /\ documents = {}
  /\ rtDocuments = <<>>
  /\ rooms = <<>>
  /\ disturbed = {}

InitState ==
  /\ cursor = NoCursor
  /\ answer = NoAnswer
  /\ chain = <<>>
  /\ InitSdk

InitOptions(o) ==
  /\ autoQueue = o.autoQueue
  /\ autoReplay = o.autoReplay
  /\ queueFilter = o.queueFilter
  /\ queueMaxSize = o.queueMaxSize
  /\ queueTTL = o.queueTTL
  /\ replayInterval = o.replayInterval
  /\ eventTimeout = o.eventTimeout
  /\ tokenExpiredInterval = o.tokenExpiredInterval
  /\ authenticator = o.authenticator
  /\ requestTimeout = IF "requestTimeout" \in DOMAIN o
                      THEN o.requestTimeout
                      ELSE NoTimeout
  /\ offlineQueueLoader = ("offlineQueueLoader" \in DOMAIN o)

InitConn == InitState /\ \E o \in ConnOptions : InitOptions(o)

InitAuth == InitState /\ \E o \in AuthOptions : InitOptions(o)

InitQueue == InitState /\ \E o \in QueueOptions : InitOptions(o)

InitConnect == InitState /\ \E o \in ConnectOptions : InitOptions(o)

\* the observer runs on an SDK built with its default queue options
InitObserver ==
  InitState /\ InitOptions(Options(FALSE, FALSE, FALSE, 0, 0, 0, 0, 1, FALSE))

InitCursor ==
  /\ InitSdk
  /\ InitOptions(Options(FALSE, FALSE, FALSE, 0, 0, 0, 0, 1, FALSE))
  /\ cursor \in Cursors
  /\ answer = NoAnswer
  /\ chain = <<>>

InitLoader == InitState /\ \E o \in LoaderOptions : InitOptions(o)

InitReauth == InitState /\ \E o \in ReauthOptions : InitOptions(o)

InitRequests == InitState /\ \E o \in RequestOptions : InitOptions(o)

Tick ==
  /\ now < MaxTime
  /\ Commit([Begin("tick", "-", "-", "-") EXCEPT !.now = @ + 1])
  /\ UNCHANGED nextId

\* the application connects once
Connect ==
  /\ listeners = 0
  /\ Commit(connect(Begin("connect", "-", "-", "-")))
  /\ UNCHANGED nextId

\* the application calls connect() again, whatever the transport's state
ConnectAgain ==
  /\ listeners > 0
  /\ listeners < MaxListeners
  /\ Commit(connect(Begin("connect", "again", "-", "-")))
  /\ UNCHANGED nextId

Disconnect ==
  /\ Commit(disconnect(Begin("disconnect", "-", "-", "-")))
  /\ UNCHANGED nextId

Query ==
  /\ nextId <= MaxReq
  /\ \E optQueuable \in BOOLEAN, filterOk \in BOOLEAN :
       /\ (~queueFilter => filterOk)
       /\ Commit(query(Begin("query",
                             IF optQueuable /\ filterOk THEN "queuable"
                             ELSE "notQueuable", "-", "-"),
                       nextId, optQueuable, filterOk, FALSE, NoTimeout))
  /\ nextId' = nextId + 1

\* query() with or without options.timeout
QueryTimeout ==
  /\ nextId <= MaxReq
  /\ \E hasTimeout \in BOOLEAN, optTimeout \in Timeouts(requestTimeout) :
       /\ Commit(query(Begin("query", "queuable", "-", "-"),
                       nextId, TRUE, TRUE, hasTimeout, optTimeout))
  /\ nextId' = nextId + 1

\* the timer armed by _timeoutRequest fires
RequestTimer ==
  /\ \E id \in Ids :
       /\ promises[id].due # NoTime
       /\ promises[id].due <= now
       /\ Commit(requestTimer(Begin("requestTimer", "-", "-", "-"), id))
  /\ UNCHANGED nextId

\* the transport settles the promise of one protocol.query call
TransportAnswer ==
  /\ \E id \in Ids, result \in {"ok", "error"} :
       /\ promises[id].transport = "pending"
       /\ Commit(protocolAnswer(
            Begin("transportAnswer", "-", "-", result), id, result))
  /\ UNCHANGED nextId

StartQueuing ==
  /\ ~autoQueue
  /\ ~queuing
  /\ Commit(startQueuing(Begin("startQueuing", "-", "-", "-")))
  /\ UNCHANGED nextId

StopQueuing ==
  /\ ~autoQueue
  /\ queuing
  /\ Commit(stopQueuing(Begin("stopQueuing", "-", "-", "-")))
  /\ UNCHANGED nextId

PlayQueue ==
  /\ pstate = "connected"
  /\ offlineQueue # <<>>
  /\ Commit(playQueue(Begin("playQueue", "-", "-", "-")))
  /\ UNCHANGED nextId

FlushQueue ==
  /\ offlineQueue # <<>>
  /\ Commit(flushQueue(Begin("flushQueue", "-", "-", "-")))
  /\ UNCHANGED nextId

\* mutant: the timer fires and the loop is not run again
DequeueTimerIdle ==
  /\ \E i \in 1 .. Len(loops) :
       /\ loops[i] <= now
       /\ Commit([Begin("dequeueTimer", "-", "-", "-")
                    EXCEPT !.loops = RemoveAt(@, i)])
  /\ UNCHANGED nextId

\* the timer set by dequeuingProcess fires
DequeueTimer ==
  /\ \E i \in 1 .. Len(loops) :
       /\ loops[i] <= now
       /\ Commit(dequeuingProcess(
            [Begin("dequeueTimer", "-", "-", "-")
               EXCEPT !.loops = RemoveAt(@, i)]))
  /\ UNCHANGED nextId

TransportConnect ==
  /\ pstate = "connecting"
  /\ ~wasConnected
  /\ Commit(connectListeners(
       [Begin("connectEvent", "-", "-", "-")
          EXCEPT !.pstate = "connected", !.wasConnected = TRUE],
       listeners))
  /\ UNCHANGED nextId

TransportReconnect ==
  /\ pstate = "connecting"
  /\ wasConnected
  /\ CommitEvent(reconnectListeners(
       [Begin("reconnectEvent", "-", "-", "-")
          EXCEPT !.pstate = "connected"],
       listeners))
  /\ UNCHANGED nextId

TransportNetworkError ==
  /\ pstate \in {"connecting", "connected"}
  /\ \E retry \in BOOLEAN :
       Commit(networkErrorListeners(
         [Begin("networkErrorEvent", "-", "-", "-")
            EXCEPT !.pstate = IF retry THEN "connecting" ELSE "offline"],
         listeners))
  /\ UNCHANGED nextId

TransportDisconnect ==
  /\ pstate = "connected"
  /\ Commit(disconnectListeners(
       [Begin("disconnectEvent", "-", "-", "-") EXCEPT !.pstate = "offline"],
       listeners))
  /\ UNCHANGED nextId

TransportTokenExpired ==
  /\ pstate = "connected"
  /\ CommitEvent(tokenExpiredListeners(
       Begin("tokenExpiredEvent", "-", "-", "-"), listeners))
  /\ UNCHANGED nextId

\* auth.login settles: the token is stored on success, loginAttempt is emitted
Login ==
  /\ \E success \in BOOLEAN :
       Commit(emitP(
         [Begin("login", "-", "-", IF success THEN "success" ELSE "failure")
            EXCEPT !.token = IF success THEN "valid" ELSE @],
         "loginAttempt", success))
  /\ UNCHANGED nextId

\* auth.logout settles: the token is dropped, logoutAttempt is emitted
Logout ==
  /\ token # "none"
  /\ Commit(emitP(
       [Begin("logout", "-", "-", "success") EXCEPT !.token = "none"],
       "logoutAttempt", TRUE))
  /\ UNCHANGED nextId

\* the server stops accepting the held token
TokenExpires ==
  /\ token = "valid"
  /\ Commit([Begin("tokenExpires", "-", "-", "-") EXCEPT !.token = "invalid"])
  /\ UNCHANGED nextId

\* an awaited promise settles and the suspended function resumes
Resume ==
  /\ \E i \in 1 .. Len(procs) :
       LET p == procs[i]
           s == [Begin("resume", p.kind, p.pc, "-")
                   EXCEPT !.procs = RemoveAt(@, i)]
       IN \E r \in (IF p.pc = "auth" THEN {"ok", "throws"}
                    ELSE CheckResults(s)) :
            Commit(resume([s EXCEPT !.out.r = r], p, r))
  /\ UNCHANGED nextId

NextQueue ==
  \/ Tick
  \/ Connect
  \/ Query
  \/ StartQueuing
  \/ StopQueuing
  \/ PlayQueue
  \/ FlushQueue
  \/ DequeueTimer
  \/ TransportConnect
  \/ TransportReconnect
  \/ TransportNetworkError
  \/ Resume

SpecQueue == InitQueue /\ [][NextQueue]_vars

\* time passes while a timer of the replay loop is waiting
Elapse ==
  /\ \E i \in 1 .. Len(loops) : loops[i] > now
  /\ Commit([Begin("elapse", "-", "-", "-") EXCEPT !.now = @ + 1])
  /\ UNCHANGED nextId

\* the replay of the queue on a transport that stays ready once connected
NextReplay ==
  \/ Tick
  \/ Connect
  \/ Query
  \/ PlayQueue
  \/ DequeueTimer
  \/ Elapse
  \/ TransportConnect

\* the timers of setTimeout fire: time passes and the callback runs
SpecReplay ==
  /\ InitQueue
  /\ [][NextReplay]_vars
  /\ WF_vars(DequeueTimer)
  /\ WF_vars(Elapse)

NextConn ==
  \/ Connect
  \/ Disconnect
  \/ Query
  \/ DequeueTimer
  \/ TransportConnect
  \/ TransportReconnect
  \/ TransportNetworkError
  \/ TransportDisconnect
  \/ Login
  \/ TokenExpires
  \/ Resume

SpecConn == InitConn /\ [][NextConn]_vars

NextAuth ==
  \/ Tick
  \/ Connect
  \/ TransportConnect
  \/ TransportTokenExpired
  \/ Login
  \/ Logout
  \/ TokenExpires
  \/ Resume

SpecAuth == InitAuth /\ [][NextAuth]_vars

\* the observer's task o ends: its state is stored and the task recorded
ObsCommit(o, op, kind) ==
  /\ Len(o.rooms) <= MaxRooms
  /\ documentsByCollection' = o.documentsByCollection
  /\ buckets' = o.buckets
  /\ documents' = o.documents
  /\ rtDocuments' = o.rtDocuments
  /\ rooms' = o.rooms
  /\ disturbed' = o.disturbed
  /\ out' = [NoOut EXCEPT !.op = op, !.kind = kind,
                          !.r = IF o.raised THEN "TypeError" ELSE "-",
                          !.n = o.notified]
  /\ UNCHANGED sdkVars
  /\ UNCHANGED cursorVars

Observe ==
  \E c \in Colls, d \in DocIds :
    ObsCommit(observe(ObsCur, c, d), "observe", c)

\* stop(index, collection, documents) on an observed collection
StopDocuments ==
  \E c \in Colls, D \in (SUBSET DocIds) \ {{}} :
    /\ documentsByCollection[c] # 0
    /\ ObsCommit(disposeDocuments(
                   [ObsCur EXCEPT !.disturbed = @ \cup {c}], c, D),
                 "stopDocuments", c)

\* stop(index, collection) on an observed collection
StopCollection ==
  \E c \in Colls :
    /\ documentsByCollection[c] # 0
    /\ ObsCommit(disposeCollection(
                   [ObsCur EXCEPT !.disturbed = @ \cup {c}], c),
                 "stopCollection", c)

\* stop()
StopAll ==
  ObsCommit(disposeAll([ObsCur EXCEPT !.disturbed = Colls]), "stopAll", "-")

\* a room still open on the server notifies the deletion of a tracked
\* document of its filter
NotifyDelete ==
  \E c \in Colls, d \in DocIds :
    /\ <<c, d>> \in documents
    /\ \E r \in 1 .. Len(rooms) :
         /\ rooms[r].coll = c
         /\ d \in rooms[r].filter
         /\ rooms[r].state \in {"active", "unsubscribing"}
    /\ ObsCommit(notificationHandler(
                   [ObsCur EXCEPT !.disturbed = @ \cup {c}],
                   [event |-> "delete", coll |-> c, id |-> d,
                    source |-> <<>>]),
                 "notifyDelete", c)

\* the answer to a subscribe request arrives, in any order
SubscribeResponse ==
  \E r \in 1 .. Len(rooms) :
    /\ rooms[r].state = "subscribing"
    /\ ObsCommit(subscribed(ObsCur, r), "subscribeResponse", rooms[r].coll)

\* the answer to an unsubscribe request arrives
UnsubscribeResponse ==
  \E r \in 1 .. Len(rooms) :
    /\ rooms[r].state = "unsubscribing"
    /\ ObsCommit([ObsCur EXCEPT !.rooms[r].state = "closed"],
                 "unsubscribeResponse", rooms[r].coll)

\* the rooms of the server that notify about document d of collection c
Notifying(c, d) ==
  {r \in 1 .. Len(rooms) :
     /\ rooms[r].coll = c
     /\ d \in rooms[r].filter
     /\ rooms[r].state \in {"active", "unsubscribing"}}

\* the notifications the server sends about document d of collection c
Notifications(c, d) ==
  {[event |-> "write", coll |-> c, id |-> d, source |-> s] : s \in Sources}
    \cup {[event |-> e, coll |-> c, id |-> d, source |-> <<>>] :
            e \in {"publish", "delete"}}

\* a room notifies a change of a tracked document
Notify ==
  \E c \in Colls, d \in DocIds :
    /\ <<c, d>> \in documents
    /\ Notifying(c, d) # {}
    /\ \E n \in Notifications(c, d) :
         ObsCommit(notificationHandler(
                     [ObsCur EXCEPT !.disturbed =
                        IF n.event = "delete" THEN @ \cup {c} ELSE @], n),
                   "notify", c)

\* a room that is still open notifies a change of a document that is no
\* longer tracked
NotifyUntracked ==
  \E c \in Colls, d \in DocIds :
    /\ <<c, d>> \notin documents
    /\ Notifying(c, d) # {}
    /\ \E n \in Notifications(c, d) :
         ObsCommit(notificationHandler(ObsCur, n), "notifyUntracked", c)

\* the observer and the notifications of its rooms
NextNotify ==
  \/ Observe
  \/ StopDocuments
  \/ Notify
  \/ NotifyUntracked
  \/ SubscribeResponse
  \/ UnsubscribeResponse

SpecNotify == InitObserver /\ [][NextNotify]_vars

NextObserver ==
  \/ Observe
  \/ StopDocuments
  \/ StopCollection
  \/ StopAll
  \/ NotifyDelete
  \/ SubscribeResponse
  \/ UnsubscribeResponse

SpecObserver == InitObserver /\ [][NextObserver]_vars

\* next() is called on the cursor; no query is issued
CursorNext ==
  /\ next(cursor).kind # "query"
  /\ answer' = next(cursor)
  /\ cursor' = cursor
  /\ chain' = chain
  /\ UNCHANGED <<sdkVars, out, obsVars>>

\* next() is called on the cursor and its query is answered with a page of
\* h hits, an empty one when nothing is left to fetch: the caller goes on
\* with the new cursor
CursorNextPage ==
  /\ next(cursor).kind = "query"
  /\ answer' = next(cursor)
  /\ \E h \in 0 .. 2 :
       /\ IF cursor.fetched >= cursor.total
          THEN h = 0
          ELSE /\ cursor.fetched + h <= cursor.total
               /\ Page(cursor.request, next(cursor).query.from,
                       cursor.total, h)
       /\ cursor' = buildNextSearchResult(cursor, next(cursor).query, h)
  /\ chain' = Append(chain, calledOn(cursor, next(cursor).query))
  /\ UNCHANGED <<sdkVars, out, obsVars>>

NextCursor ==
  \/ CursorNext
  \/ CursorNextPage

SpecCursor == InitCursor /\ [][NextCursor]_vars

\* the requestIds of the entries the loader returns: those of the first
\* two query() calls
LoadedRequestIds == {1, 2}

\* the i-th entry of a loaded batch
LoadedEntry(i, rid, valid) ==
  [id |-> MaxReq + i, ts |-> 0, timeout |-> NoTimeout, requestId |-> rid,
   valid |-> valid]

\* what the loader can resolve to: something that is not an array, or up to
\* MaxLoaded entries, well formed or not, with or without duplicates
Batches ==
  {NotArray} \cup
  UNION {{[i \in 1 .. n |-> LoadedEntry(i, f[i][1], f[i][2])] :
            f \in [1 .. n -> LoadedRequestIds \X BOOLEAN]} :
         n \in 0 .. MaxLoaded}

\* the promise of the offlineQueueLoader resolves
LoaderAnswer ==
  /\ loaders > 0
  /\ \E b \in Batches :
       Commit(loaded([Begin("loaderAnswer", "-", "loader", "-")
                        EXCEPT !.loaders = @ - 1,
                               !.loaderResult = b],
                     b))
  /\ UNCHANGED nextId

\* playQueue() on a ready transport, whatever the queue holds, while
\* nothing has been sent
PlayLoadedQueue ==
  /\ pstate = "connected"
  /\ sent = <<>>
  /\ Commit(playQueue(Begin("playQueue", "-", "-", "-")))
  /\ UNCHANGED nextId

NextLoader ==
  \/ Connect
  \/ Query
  \/ PlayLoadedQueue
  \/ DequeueTimer
  \/ LoaderAnswer
  \/ TransportConnect

SpecLoader == InitLoader /\ [][NextLoader]_vars

NextReauth ==
  \/ Connect
  \/ TransportConnect
  \/ TransportReconnect
  \/ TransportNetworkError
  \/ TransportTokenExpired
  \/ Login
  \/ Logout
  \/ TokenExpires
  \/ Resume

SpecReauth == InitReauth /\ [][NextReauth]_vars

NextConnect ==
  \/ Connect
  \/ ConnectAgain
  \/ Query
  \/ StartQueuing
  \/ StopQueuing
  \/ DequeueTimer
  \/ TransportConnect
  \/ TransportReconnect
  \/ TransportNetworkError
  \/ Resume

SpecConnect == InitConnect /\ [][NextConnect]_vars

NextRequests ==
  \/ Tick
  \/ Connect
  \/ QueryTimeout
  \/ DequeueTimer
  \/ RequestTimer
  \/ TransportConnect
  \/ TransportAnswer

SpecRequests == InitRequests /\ [][NextRequests]_vars

\* ------------------------------------------------------------ claims
QueueIds(q) == {q[k].id : k \in 1 .. Len(q)}

EmittedIn(o, ev) == \E k \in 1 .. Len(o.emits) : o.emits[k].ev = ev

DeliveredIn(o, ev) ==
  \E k \in 1 .. Len(o.emits) : o.emits[k].ev = ev /\ o.emits[k].ok

Emitted(ev) == EmittedIn(out, ev)

Delivered(ev) == DeliveredIn(out, ev)

\* the positions of `sent` that are replays of queued entries
Replayed == {k \in 1 .. Len(sent) : sent[k].replay}

ReplayInOrder ==
  \A i, j \in Replayed : i < j => sent[i].id < sent[j].id

\* the queue after a step is a suffix of the queue before it, followed by
\* the entries the step appended
OnlyOldestLeave ==
  \E k \in 0 .. Len(offlineQueue) :
    \E m \in 0 .. Len(offlineQueue') :
      /\ SubSeq(offlineQueue', 1, m)
           = SubSeq(offlineQueue, k + 1, Len(offlineQueue))
      /\ \A n \in m + 1 .. Len(offlineQueue') :
           offlineQueue'[n].id \notin QueueIds(offlineQueue)

\* C1: the transport receives the replayed entries in the order in which
\* they were enqueued (ids are given in call order), and every step removes
\* only a contiguous oldest prefix of the queue, the survivors keeping
\* their relative order.
C1_ReplayIsFifo == []ReplayInOrder /\ [][OnlyOldestLeave]_vars

\* C1 witness: the replay timer has just sent a second queued entry.
C1_Witness ==
  /\ Cardinality(Replayed) >= 2
  /\ out.op = "dequeueTimer"
  /\ out.nsent = 1

\* the replays a step makes, as positions of sent'
NewReplays == {k \in Len(sent) + 1 .. Len(sent') : sent'[k].replay}

\* the entries of the queue whose queued time exceeds queueTTL at this step
Expired ==
  {k \in 1 .. Len(offlineQueue) : now' - offlineQueue[k].ts > queueTTL}

SendsNoExpired ==
  \A k \in Expired : \A n \in NewReplays : sent'[n].id # offlineQueue[k].id

RejectsExpired ==
  \A k \in Expired :
    \E d \in 1 .. Len(out'.drops) :
      out'.drops[d] = [id |-> offlineQueue[k].id, why |-> "ttl"]

\* an entry that left the queue never comes back, and only queued entries
\* are replayed
LeavesForGood ==
  /\ QueueIds(offlineQueue') \subseteq QueueIds(offlineQueue) \cup {nextId}
  /\ \A n \in NewReplays :
       /\ sent'[n].id \in QueueIds(offlineQueue)
       /\ sent'[n].id \notin QueueIds(offlineQueue')
  /\ \A d \in 1 .. Len(out'.drops) :
       /\ out'.drops[d].id \in QueueIds(offlineQueue)
       /\ out'.drops[d].id \notin QueueIds(offlineQueue')
       /\ \A n \in NewReplays : sent'[n].id # out'.drops[d].id

\* C2 as claimed: with queueTTL > 0, an entry whose queued time exceeds
\* queueTTL is never passed to the transport, whatever step replays it.
C2_ExpiredNeverSent == [][queueTTL > 0 => SendsNoExpired]_vars

\* the steps that run _cleanQueue: an enqueue, and playQueue on a ready
\* transport (called directly or from the connect and reconnect handlers)
CleaningStep == out'.op # "dequeueTimer" /\ out'.op # "tick"

Cleans ==
  \/ out'.op = "query" /\ out'.r = "queued"
  \/ out'.op = "playQueue"
  \/ out'.op = "connectEvent" /\ autoReplay
  \/ out'.op \in {"reconnectEvent", "resume"} /\ autoReplay
       /\ pstate' = "connected" /\ EmittedIn(out', "reconnected")

\* C2 amended: with queueTTL > 0, an entry whose queued time exceeds
\* queueTTL when the queue is cleaned (at an enqueue or at a playQueue on a
\* ready transport) is rejected with the queued-time-exceeded error by that
\* call, an entry that left the queue never returns to it, and no step other
\* than the replay timer passes an expired entry to the transport.
C2_ExpiredRejectedWhenCleaned ==
  [][queueTTL > 0 =>
       /\ Cleans => RejectsExpired
       /\ CleaningStep => SendsNoExpired
       /\ LeavesForGood]_vars

\* C2 witness: playQueue has just rejected an expired entry and replayed a
\* live one.
C2_Witness ==
  /\ queueTTL > 0
  /\ out.op = "playQueue"
  /\ \E d \in 1 .. Len(out.drops) : out.drops[d].why = "ttl"
  /\ out.nsent = 1

\* C3 as claimed: with queueMaxSize > 0, after every query() call that
\* enqueues a request the offline queue holds at most queueMaxSize entries.
C3_QueueWithinMaxSize ==
  (queueMaxSize > 0 /\ out.op = "query" /\ out.r = "queued")
    => Len(offlineQueue) <= queueMaxSize

\* C4 as claimed: a request that is not queuable and is issued while the
\* transport is not connected is rejected with a discarded event, is not
\* appended to the queue and is not passed to the transport.
C4_DiscardedWhenDisconnected ==
  (out.op = "query" /\ out.kind = "notQueuable" /\ pstate # "connected")
    => /\ out.r = "rejected"
       /\ Delivered("discarded")
       /\ out.nsent = 0
       /\ (nextId - 1) \notin QueueIds(offlineQueue)

\* C4 amended: a request that is not queuable and is issued while the SDK is
\* queuing (the queuing flag is set) is rejected with a discarded event, is
\* not appended to the queue and is not passed to the transport.
C4_DiscardedWhenQueuing ==
  (out.op = "query" /\ out.kind = "notQueuable" /\ queuing)
    => /\ out.r = "rejected"
       /\ Delivered("discarded")
       /\ ~Emitted("offlineQueuePush")
       /\ out.nsent = 0
       /\ (nextId - 1) \notin QueueIds(offlineQueue)
       /\ \A k \in 1 .. Len(sent) : sent[k].id # nextId - 1

\* C4 witness: a non-queuable request was refused while entries were queued.
C4_Witness ==
  /\ out.op = "query"
  /\ out.kind = "notQueuable"
  /\ queuing
  /\ out.r = "rejected"
  /\ offlineQueue # <<>>

ReconnectHandled ==
  \/ out.op = "reconnectEvent" /\ ~reconnectInProgress
  \/ out.op = "resume" /\ out.kind = "reconnect"
       /\ \A k \in 1 .. Len(procs) : procs[k].kind # "reconnect"

\* C6 as claimed: a reconnect event handled while the held token is invalid
\* and no authenticator is set emits reconnectionError, ends logged out and
\* sends no queued entry to the transport.
C6_InvalidTokenStopsReconnect ==
  (ReconnectHandled /\ token = "invalid" /\ ~authenticator)
    => /\ Delivered("reconnectionError")
       /\ ~loggedIn
       /\ out.nsent = 0

\* C6 amended: a reconnect event handled while the SDK is logged in, the
\* token check answers invalid and no authenticator is set emits
\* reconnectionError, ends logged out, and neither replays a queued entry
\* nor emits reconnected.
C6_LoggedInInvalidTokenStopsReconnect ==
  (/\ out.op = "resume"
   /\ out.kind = "reconnect"
   /\ out.pc = "check1"
   /\ out.r = "invalid"
   /\ ~authenticator)
    => /\ Delivered("reconnectionError")
       /\ ~loggedIn
       /\ out.nsent = 0
       /\ out.drops = <<>>
       /\ ~Emitted("reconnected")

\* C6 witness: the check answered invalid for a logged-in SDK without
\* authenticator while an entry was waiting and auto-replay was on.
C6_Witness ==
  /\ out.op = "resume"
  /\ out.kind = "reconnect"
  /\ out.pc = "check1"
  /\ out.r = "invalid"
  /\ ~authenticator
  /\ autoReplay
  /\ offlineQueue # <<>>

\* the re-authentication started by a reconnect event has just failed
ReconnectReauthFailed ==
  /\ out.op = "resume"
  /\ out.kind = "reconnect"
  /\ \/ out.pc = "check1" /\ out.r = "invalid" /\ ~authenticator
     \/ out.pc = "auth" /\ out.r = "throws"
     \/ out.pc = "check2" /\ out.r = "invalid"
     \/ out.pc \in {"check1", "check2"} /\ out.r = "throws"

\* C7: when the re-authentication of a reconnect fails (no authenticator,
\* authenticator throws, token still invalid, or the token check fails),
\* loggedIn is false, the transport is closed and reconnected is not emitted.
C7_FailedReauthDisconnects ==
  ReconnectReauthFailed
    => /\ ~loggedIn
       /\ pstate = "offline"
       /\ ~reconnectInProgress
       /\ ~Emitted("reconnected")

\* C7 witness: the authenticator ran and the token was still invalid.
C7_Witness ==
  /\ ReconnectReauthFailed
  /\ out.pc = "check2"
  /\ out.r = "invalid"

\* C8 as claimed: right after a login attempt that succeeded the SDK is
\* logged in, whatever login attempts preceded it.
C8_LoggedInAfterSuccessfulLogin ==
  (out.op = "login" /\ out.r = "success") => loggedIn

\* this step ran tokenExpired up to its throttle: directly for an SDK that
\* is not logged in, or after its re-authentication failed
ExpiryHandled ==
  \/ /\ out'.op = "tokenExpiredEvent"
     /\ listeners > 0
     /\ ~reconnectInProgress
     /\ ~loggedIn
  \/ /\ out'.op = "resume"
     /\ out'.kind = "tokenExpired"
     /\ \/ out'.pc = "check1" /\ out'.r = "invalid" /\ ~authenticator
        \/ out'.pc = "auth" /\ out'.r = "throws"
        \/ out'.pc = "check2" /\ out'.r = "invalid"
        \/ out'.pc \in {"check1", "check2"} /\ out'.r = "throws"

Throttled ==
  lastTokenExpired # NoTime /\ now - lastTokenExpired < tokenExpiredInterval

\* C9: an expiry handled less than tokenExpiredInterval after the previous
\* handled one neither clears the token nor emits tokenExpired; one handled
\* later clears the token, restarts the interval and emits tokenExpired,
\* which reaches the listeners whenever eventTimeout does not exceed
\* tokenExpiredInterval.
C9_ExpiryOncePerInterval ==
  [][ExpiryHandled =>
       IF Throttled
       THEN /\ token' = token
            /\ lastTokenExpired' = lastTokenExpired
            /\ ~EmittedIn(out', "tokenExpired")
       ELSE /\ token' = "none"
            /\ lastTokenExpired' = now
            /\ EmittedIn(out', "tokenExpired")
            /\ eventTimeout <= tokenExpiredInterval
                 => DeliveredIn(out', "tokenExpired")]_vars

\* C9 witness: a second expiry signal arrived later than the first but
\* inside the interval, and left the token in place.
C9_Witness ==
  /\ out.op = "tokenExpiredEvent"
  /\ ~reconnectInProgress
  /\ ~loggedIn
  /\ out.emits = <<>>
  /\ lastTokenExpired # NoTime
  /\ lastTokenExpired < now
  /\ token # "none"

\* the emission recorded in e was made inside the window of its event
InWindow(e) == e.prev # NoTime /\ now - e.prev < eventTimeout

\* C10: an emission of a protected event is dropped exactly when it is made
\* less than eventTimeout after the last delivered emission of that event,
\* a dropped emission leaves the window where it was, a delivered one
\* restarts it, and an event that is not protected is never dropped.
C10_ProtectedOncePerWindow ==
  \A i \in 1 .. Len(out.emits) :
    LET e == out.emits[i]
    IN IF e.ev \in ProtectedEvents
       THEN /\ e.ok <=> ~InWindow(e)
            /\ ~e.ok => lastEmitted[e.ev] = e.prev
            /\ e.ok => lastEmitted[e.ev] = now
       ELSE e.ok

\* C10 witness: a protected event emitted again, later but inside its
\* window, was dropped.
C10_Witness ==
  \E i \in 1 .. Len(out.emits) :
    /\ out.emits[i].ev \in ProtectedEvents
    /\ ~out.emits[i].ok
    /\ out.emits[i].prev < now

\* the requests handed to the transport so far
Sent == {id \in Ids : promises[id].transport # "none"}

\* a caller's promise settles once, and with no timeout it is the
\* transport's promise
CallerFollowsTransport ==
  \A id \in Sent :
    LET p == promises[id]
    IN /\ p.delay = NoTimeout => (p.caller = p.transport /\ p.due = NoTime)
       /\ p.caller \in {"ok", "error"} => p.caller = p.transport
       /\ p.caller \in {"pending", "ok", "error", "timeout"}

\* the timer firing before the answer rejects with the timeout error and
\* leaves the request with the transport; a settled caller never changes
TimeoutBeatsAnswer ==
  \A id \in Ids :
    LET p == promises[id]
        q == promises'[id]
    IN /\ p.caller \notin {"none", "pending"} => q.caller = p.caller
       /\ (p.due # NoTime /\ q.due = NoTime /\ p.transport = "pending")
            => /\ q.caller = "timeout"
               /\ q.transport = "pending"
               /\ sent' = sent

\* C11: a request sent with an effective timeout other than -1 whose timer
\* fires before the transport answers is rejected with the timeout error,
\* stays with the transport, and keeps that outcome when the answer comes;
\* with an effective timeout of -1 the caller's outcome is the transport's.
C11_TimeoutRacesTransport ==
  []CallerFollowsTransport /\ [][TimeoutBeatsAnswer]_vars

\* C11 witness: the transport answered a request whose caller had already
\* been rejected by the timeout.
C11_Witness ==
  /\ out.op = "transportAnswer"
  /\ \E id \in Ids :
       /\ promises[id].caller = "timeout"
       /\ promises[id].transport = "ok"
       /\ promises[id].delay # NoTimeout

\* the requests whose promise differs between the two states of a step
Touched == {id \in Ids : promises'[id] # promises[id]}

\* the requests a step rejects
NewlyRejected ==
  {id \in Ids :
     /\ promises[id].caller = "pending"
     /\ promises'[id].caller \in {"error", "timeout", "ttl", "maxsize"}}

DroppedIds(o) == {o.drops[k].id : k \in 1 .. Len(o.drops)}

\* a failure settles one request and leaves the queue and its replay alone
FailureIsLocal ==
  /\ out'.op \in {"transportAnswer", "requestTimer"}
       => /\ Cardinality(Touched) = 1
          /\ offlineQueue' = offlineQueue
          /\ loops' = loops
          /\ sent' = sent
  /\ out'.op \notin {"transportAnswer", "requestTimer"}
       => /\ NewlyRejected = DroppedIds(out')
          /\ DroppedIds(out') \subseteq QueueIds(offlineQueue)
          /\ \A id \in Touched \ DroppedIds(out') :
               promises'[id].caller = "pending"
  /\ OnlyOldestLeave
  /\ (out'.op = "connectEvent" /\ autoReplay /\ offlineQueue' # <<>>)
       => (out'.nsent = 1 /\ Len(loops') = Len(loops) + 1)

\* every request is settled by its own outcome
OwnOutcome ==
  \A id \in Ids :
    LET p == promises[id]
    IN /\ p.caller \in {"ok", "error"} => p.caller = p.transport
       /\ p.caller = "timeout" => p.delay # NoTimeout
       /\ p.caller \in {"ttl", "maxsize"} => p.transport = "none"

\* C12: the rejection of a replayed or evicted entry (transport error,
\* timeout, TTL or max-size eviction) settles that entry only: the queue
\* behind it keeps its order, the replay loop keeps running, and every
\* other request is settled by its own outcome.
C12_FailureIsLocal == []OwnOutcome /\ [][FailureIsLocal]_vars

\* C12 witness: a replayed entry was rejected by the transport while
\* another entry was still waiting in the queue for the replay timer.
C12_Witness ==
  /\ out.op = "transportAnswer"
  /\ out.r = "error"
  /\ offlineQueue # <<>>
  /\ loops # <<>>
  /\ \E k \in Replayed : promises[sent[k].id].caller = "error"

\* C13: connect() on a transport that reports ready does not call the
\* transport's connect (its state stays connected), registers no transport
\* listener and changes neither the queuing flag nor the offline queue, nor
\* anything else of the SDK.
C13_ConnectWhenReadyIsNoOp ==
  [][(out'.op = "connect" /\ pstate = "connected")
       => /\ pstate' = "connected"
          /\ listeners' = listeners
          /\ queuing' = queuing
          /\ offlineQueue' = offlineQueue
          /\ out'.emits = <<>>
          /\ UNCHANGED <<loggedIn, reconnectInProgress, loops, procs, sent,
                         promises, wasConnected, token>>]_vars

\* C13 witness: connect() was called again on a ready transport while the
\* SDK was queuing by hand and held a queued request.
C13_Witness ==
  /\ out.op = "connect"
  /\ out.kind = "again"
  /\ pstate = "connected"
  /\ listeners = 1
  /\ queuing
  /\ offlineQueue # <<>>

\* no subscribe or unsubscribe request of the observer is in flight
Settled ==
  \A r \in 1 .. Len(rooms) : rooms[r].state \in {"active", "closed"}

\* the rooms of collection c that are open and not being closed
ActiveRooms(c) ==
  {r \in 1 .. Len(rooms) : rooms[r].coll = c /\ rooms[r].state = "active"}

\* C14 as claimed: once every pending operation has settled, the room held
\* by each bucket is active and was subscribed with the bucket's current
\* id set, and it is the only active room of the collection.
C14_RoomMatchesBucket ==
  Settled =>
    \A c \in Colls :
      documentsByCollection[c] # 0 =>
        LET bucket == buckets[documentsByCollection[c]]
        IN /\ bucket.roomId # 0
           /\ ActiveRooms(c) = {bucket.roomId}
           /\ rooms[bucket.roomId].filter = bucket.ids

\* C15 as claimed: once a stop on documents or a delete notification has
\* emptied and removed a bucket and nothing is in flight, no room of that
\* collection is active.
C15_EmptyBucketHasNoRoom ==
  (/\ out.op \in {"stopDocuments", "notifyDelete"}
   /\ documentsByCollection[out.kind] = 0
   /\ Settled)
    => ActiveRooms(out.kind) = {}

\* C16: in a collection that only observe calls have touched, the bucket
\* holds each observed id once, and once the calls have settled exactly one
\* room is active for the collection, the one the bucket holds.
C16_ObserveTwiceOneRoom ==
  \A c \in Colls \ disturbed :
    documentsByCollection[c] # 0 =>
      LET bucket == buckets[documentsByCollection[c]]
      IN /\ bucket.ids = {d \in DocIds : <<c, d>> \in documents}
         /\ Settled => (/\ Cardinality(ActiveRooms(c)) = 1
                        /\ bucket.roomId \in ActiveRooms(c))

\* C16 witness: the same document id was observed by two calls, both have
\* settled, and the first room has been closed.
C16_Witness ==
  /\ Settled
  /\ disturbed = {}
  /\ documents = {<<"a", 1>>}
  /\ Len(rooms) = 2
  /\ rooms[1].filter = {1}
  /\ rooms[2].filter = {1}
  /\ \E r \in 1 .. 2 : rooms[r].state = "closed"

\* the bucket, the tracked documents and the rooms of collection c are the
\* same after the step
Untouched(c) ==
  /\ documentsByCollection'[c] = documentsByCollection[c]
  /\ documentsByCollection[c] # 0
       => buckets'[documentsByCollection[c]] = buckets[documentsByCollection[c]]
  /\ \A d \in DocIds : (<<c, d>> \in documents') = (<<c, d>> \in documents)
  /\ \A r \in 1 .. Len(rooms) : rooms[r].coll = c => rooms'[r] = rooms[r]

\* the room held by the bucket of collection c is asked to close
RoomReleased(c) ==
  LET r == buckets[documentsByCollection[c]].roomId
  IN r # 0 /\ rooms[r].state = "active" /\ rooms'[r].state = "unsubscribing"

\* C17: with no subscribe in flight, stop() leaves no bucket and no tracked
\* document and unsubscribes the room of every bucket; stop(index,
\* collection) removes that collection's bucket and tracked documents and
\* unsubscribes its room, and leaves every other collection untouched.
C17_StopReleases ==
  [][(\A r \in 1 .. Len(rooms) : rooms[r].state # "subscribing")
       => /\ out'.op = "stopAll"
               => /\ \A c \in Colls : documentsByCollection'[c] = 0
                  /\ documents' = {}
                  /\ \A c \in Colls :
                       documentsByCollection[c] # 0 => RoomReleased(c)
          /\ out'.op = "stopCollection"
               => /\ documentsByCollection'[out'.kind] = 0
                  /\ \A d \in DocIds : <<out'.kind, d>> \notin documents'
                  /\ RoomReleased(out'.kind)
                  /\ \A c \in Colls \ {out'.kind} : Untouched(c)]_vars

\* C17 witness: one collection was stopped while another one was observed
\* through an active room.
C17_Witness ==
  /\ out.op = "stopCollection"
  /\ \E r \in 1 .. Len(rooms) :
       rooms[r].coll = out.kind /\ rooms[r].state = "unsubscribing"
  /\ \E c \in Colls \ {out.kind} :
       /\ documentsByCollection[c] # 0
       /\ ActiveRooms(c) # {}

\* --------------------------------------------------------------- C18
\* C18: next() on a cursor with fetched >= total resolves to null and issues
\* no query, whichever of scroll, size, sort and from the originating request
\* carries.
C18_AllFetchedResolvesNull ==
  [][cursor.fetched >= cursor.total
       => /\ answer'.kind = "null"
          /\ answer'.query = NoQuery
          /\ cursor' = cursor]_vars

\* next() answered null on a cursor that has fetched everything and whose
\* request carries a scroll duration, a size, a sort and an offset.
C18_Witness ==
  /\ answer.kind = "null"
  /\ cursor.fetched >= cursor.total
  /\ cursor.request.scroll # ""
  /\ cursor.request.size # NoField
  /\ cursor.request.sort
  /\ cursor.request.from # NoField

\* --------------------------------------------------------------- C19
\* the originating request carries size and from, no scroll and no sort
FromSizeRequest(r) ==
  /\ r.scroll = ""
  /\ ~r.sort
  /\ r.size # NoField
  /\ r.from # NoField

\* C19: on a cursor of a size and from request with fetched < total, next()
\* resolves to null without a query when from + size >= total, and otherwise
\* resubmits the search action with from advanced by size and the same size.
C19_FromAdvancedBySize ==
  [][FromSizeRequest(cursor.request) /\ cursor.fetched < cursor.total
       => IF cursor.request.from + cursor.request.size >= cursor.total
          THEN answer'.kind = "null" /\ answer'.query = NoQuery
          ELSE /\ answer'.kind = "query"
               /\ answer'.query.action = "search"
               /\ answer'.query.size = cursor.request.size
               /\ answer'.query.from
                    = cursor.request.from + cursor.request.size]_vars

\* --------------------------------------------------------------- C20
\* C20: on a cursor of a request with a scroll duration and fetched < total,
\* next() issues one query made of the scroll action, the same scroll
\* duration and the page's scrollId only: it carries no filter body, size,
\* sort marker or offset, even when the request has a size, a sort or a from.
C20_ScrollSendsScrollIdOnly ==
  [][cursor.request.scroll # "" /\ cursor.fetched < cursor.total
       => /\ answer'.kind = "query"
          /\ answer'.query.action = "scroll"
          /\ answer'.query.scroll = cursor.request.scroll
          /\ answer'.query.scrollId = cursor.scrollId
          /\ ~answer'.query.body
          /\ answer'.query.searchAfter = NoField
          /\ answer'.query.size = NoField
          /\ answer'.query.from = NoField]_vars

\* a request with a scroll duration, a size, a sort and an offset has been
\* scrolled to its next page.
C20_Witness ==
  /\ answer.kind = "query"
  /\ answer.query.action = "scroll"
  /\ cursor.scrollId = 2
  /\ cursor.request.size # NoField
  /\ cursor.request.sort
  /\ cursor.request.from # NoField

\* --------------------------------------------------------------- C21
RECURSIVE SumHits(_)
\* the hit counts of the pages of the cursors cs, added up
SumHits(cs) == IF cs = <<>> THEN 0 ELSE cs[1].hits + SumHits(Tail(cs))

\* C21: along a chain of cursors made by successful next() calls, under each
\* pagination strategy, the fetched of every cursor is the sum of the hit
\* counts of the pages fetched up to and including its own.
C21_FetchedIsSumOfHits ==
  /\ cursor.fetched = SumHits(chain) + cursor.hits
  /\ \A i \in 1 .. Len(chain) :
       chain[i].fetched = SumHits(SubSeq(chain, 1, i))

\* a third page of two hits has been fetched after pages of two and one.
C21_Witness ==
  /\ Len(chain) = 2
  /\ chain[1].hits = 2
  /\ chain[2].hits = 1
  /\ cursor.hits = 2
  /\ cursor.fetched = 5

\* --------------------------------------------------------------- C22
\* the request carries no scroll duration, no size with a sort and no size
\* with an offset
NoStrategy(r) ==
  /\ r.scroll = ""
  /\ ~(r.size # NoField /\ r.sort)
  /\ ~(r.size # NoField /\ r.from # NoField)

\* C22: with fetched < total and a request that carries none of the three
\* pagination strategies, next() fails with the cannot-paginate error and
\* issues no query.
C22_NoStrategyFails ==
  [][NoStrategy(cursor.request) /\ cursor.fetched < cursor.total
       => /\ answer'.kind = "error"
          /\ answer'.query = NoQuery
          /\ cursor' = cursor]_vars

\* next() has failed on a cursor whose request has a size but neither sort
\* nor offset, with results left to fetch.
C22_Witness ==
  /\ answer.kind = "error"
  /\ cursor.fetched < cursor.total
  /\ cursor.request.size # NoField
  /\ NoStrategy(cursor.request)

ReplaySends ==
  {i \in Len(sent) + 1 .. Len(sent') : sent'[i].replay}

\* at most one dequeuing loop has its timer pending
OneLoop == Len(loops) <= 1

\* a step sends at most one queued entry, and none while a loop timer set
\* by an earlier send has not run out its replayInterval
SpacedSend ==
  /\ Cardinality(ReplaySends) <= 1
  /\ ReplaySends # {} => \A i \in 1 .. Len(loops) : loops[i] <= now

\* C24: during replay the queued entries go to the transport one at a time,
\* two consecutive sends are a replayInterval apart, and at most one
\* dequeuing loop is active, for every sequence of playQueue() calls and
\* transport connect and reconnect events.
C24_OneSpacedLoop == []OneLoop /\ [][SpacedSend]_vars

\* --------------------------------------------------------------- C25
\* the loader was misused: it resolved to something that is not an array,
\* or an entry to replay, loaded or queued, lacks a required property
LoaderMisused(b, q) ==
  \/ b = NotArray
  \/ \E i \in 1 .. Len(b) : ~b[i].valid
  \/ \E i \in 1 .. Len(q) : ~wellFormed(q[i])

\* C25: when the offlineQueueLoader resolves to something that is not an
\* array, or an entry to replay lacks requestId, controller or action, the
\* replay fails: nothing is sent to the transport and the offline queue is
\* what it was before the loader ran.
C25_LoaderMisuseFailsFast ==
  [][out'.op = "loaderAnswer" /\ LoaderMisused(loaderResult', offlineQueue)
       => /\ out'.r = "throws"
          /\ sent' = sent
          /\ offlineQueue' = offlineQueue
          /\ loops' = loops]_vars

\* the loader returned a well-formed entry followed by one without its
\* required properties while a request was waiting in the queue.
C25_Witness ==
  /\ out.op = "loaderAnswer"
  /\ out.r = "throws"
  /\ Len(loaderResult) = 2
  /\ loaderResult[1].valid
  /\ ~loaderResult[2].valid
  /\ offlineQueue # <<>>
  /\ sent = <<>>

\* --------------------------------------------------------------- C26
\* the entries of q whose requestId is not the one of an earlier entry
FirstOccurrences(q) ==
  LET F[i \in 0 .. Len(q)] ==
        IF i = 0 THEN <<>>
        ELSE IF \E j \in 1 .. i - 1 : requestId(q[j]) = requestId(q[i])
             THEN F[i - 1]
             ELSE Append(F[i - 1], q[i])
  IN F[Len(q)]

\* the step starts the replay of queue q: its first entry goes to the
\* transport and the others wait in the offline queue
Replays(q) ==
  IF q = <<>>
  THEN offlineQueue' = <<>> /\ sent' = sent
  ELSE /\ offlineQueue' = Tail(q)
       /\ sent' = Append(sent, [id |-> Head(q).id, replay |-> TRUE])

\* the loader resolved to an array of well-formed entries
LoaderAnswered ==
  /\ out'.op = "loaderAnswer"
  /\ ~LoaderMisused(loaderResult', offlineQueue)

\* C26 as stated: the queue replayed is the loaded batch, deduplicated
\* against itself by requestId, followed by every entry of the live queue:
\* no live entry is removed, even one with the requestId of a loaded entry.
C26_OnlyLoadedDeduplicated ==
  [][LoaderAnswered
       => Replays(FirstOccurrences(loaderResult') \o offlineQueue)]_vars

\* C26: the queue replayed is the loaded batch followed by the live queue,
\* deduplicated as a whole by requestId with the first occurrence kept: a
\* live entry with the requestId of a loaded entry is removed.
C26_WholeQueueDeduplicated ==
  [][LoaderAnswered
       => Replays(FirstOccurrences(loaderResult' \o offlineQueue))]_vars

\* the loader returned two entries with requestId 1 while the requests 1
\* and 2 were queued: the first loaded entry was sent, request 2 waits, and
\* request 1 is neither sent nor queued any more.
C26_Witness ==
  /\ out.op = "loaderAnswer"
  /\ out.r = "loaded"
  /\ Len(loaderResult) = 2
  /\ loaderResult[1].requestId = 1
  /\ loaderResult[2].requestId = 1
  /\ Len(sent) = 1
  /\ sent[1].id = loaderResult[1].id
  /\ Len(offlineQueue) = 1
  /\ offlineQueue[1].id = 2
  /\ promises[1].caller = "pending"

\* --------------------------------------------------------------- C27
\* how many times the task emitted, or tried to emit, the event ev
Emissions(o, ev) ==
  Cardinality({k \in 1 .. Len(o.emits) : o.emits[k].ev = ev})

\* every transport event has at most one SDK handler
RegisteredOnce == listeners <= 1

\* a transport connect or networkError event runs its SDK handler once
HandledOnce ==
  /\ out'.op = "connectEvent" => Emissions(out', "connected") = 1
  /\ out'.op = "networkErrorEvent" => Emissions(out', "networkError") = 1

\* C27: whatever the sequence of connect() calls, each transport event has
\* exactly one SDK handler registered, so that one transport event is
\* handled exactly once.
C27_ListenersRegisteredOnce == []RegisteredOnce /\ [][HandledOnce]_vars

\* --------------------------------------------------------------- C28
\* the calls of tryReAuthenticate that are suspended at a token check or at
\* the authenticator
InFlight(ps) ==
  {k \in 1 .. Len(ps) : ps[k].pc \in {"check1", "auth", "check2"}}

\* at most one re-authentication is in flight
OneReauthentication == Cardinality(InFlight(procs)) <= 1

\* a reconnect or tokenExpired event that arrives during a
\* re-authentication starts no token check and no authenticator call
EventStartsNothing ==
  (reconnectInProgress /\ out'.op \in {"reconnectEvent", "tokenExpiredEvent"})
    => procs' = procs

ReauthResumed ==
  /\ out'.op = "resume"
  /\ out'.pc \in {"check1", "auth", "check2"}

\* C29: a re-authentication ends with a boolean whatever the token checks
\* and the authenticator answer or throw: it goes on to its next await or
\* returns; it returns true only from a token check that answered valid; it
\* emits reconnectionError exactly when it returns false; and
\* reconnectInProgress is false once it has returned.
C29_ReauthReturnsBoolean ==
  [][ReauthResumed
       => /\ \/ out'.ret \in {"true", "false"}
             \/ /\ out'.ret = "-"
                /\ Cardinality(InFlight(procs')) = 1
                /\ reconnectInProgress'
          /\ out'.ret = "true"
               => out'.pc \in {"check1", "check2"} /\ out'.r = "valid"
          /\ (out'.ret = "false") = (Emissions(out', "reconnectionError") = 1)
          /\ out'.ret # "false" => Emissions(out', "reconnectionError") = 0
          /\ out'.ret # "-" => ~reconnectInProgress']_vars

\* the authenticator ran and the token check that followed threw: the
\* re-authentication started by a tokenExpired event returned false.
C29_Witness ==
  /\ out.op = "resume"
  /\ out.kind = "tokenExpired"
  /\ out.pc = "check2"
  /\ out.r = "throws"
  /\ out.ret = "false"
  /\ ~reconnectInProgress

\* --------------------------------------------------------------- C30
\* C30: a tokenExpired signal received while a reconnection is in progress
\* changes nothing: the token, loggedIn and the time of the last expiry are
\* kept, no token check or authenticator call starts, nothing is emitted.
C30_ExpiryIgnoredDuringReconnect ==
  [][(reconnectInProgress /\ out'.op = "tokenExpiredEvent")
       => /\ token' = token
          /\ loggedIn' = loggedIn
          /\ lastTokenExpired' = lastTokenExpired
          /\ reconnectInProgress'
          /\ procs' = procs
          /\ out'.emits = <<>>]_vars

\* a tokenExpired signal has arrived during the re-authentication of a
\* reconnect, after a logout: the SDK is logged out, and no expiry was
\* recorded.
C30_Witness ==
  /\ out.op = "tokenExpiredEvent"
  /\ listeners = 1
  /\ reconnectInProgress
  /\ ~loggedIn
  /\ lastTokenExpired = NoTime
  /\ Len(procs) = 1
  /\ procs[1].kind = "reconnect"

\* --------------------------------------------------------------- C31
\* a tokenExpired signal is handled outside a reconnection
ExpirySignalled ==
  /\ ~reconnectInProgress
  /\ listeners = 1
  /\ out'.op = "tokenExpiredEvent"

\* the handler has done nothing but start a re-authentication
ReauthenticationStarted ==
  /\ procs' = Append(procs, [kind |-> "tokenExpired", pc |-> "check1"])
  /\ reconnectInProgress'
  /\ out'.emits = <<>>
  /\ token' = token
  /\ loggedIn' = loggedIn
  /\ lastTokenExpired' = lastTokenExpired

\* the re-authentication started by a tokenExpired signal has succeeded:
\* reAuthenticated is emitted and the expiry is dropped
ReauthenticatedKeepsSession ==
  (out'.op = "resume" /\ out'.kind = "tokenExpired" /\ out'.ret = "true")
    => /\ Emissions(out', "reAuthenticated") = 1
       /\ Emissions(out', "tokenExpired") = 0
       /\ token' = token
       /\ token' = "valid"
       /\ loggedIn => loggedIn'
       /\ lastTokenExpired' = lastTokenExpired

\* C31 as stated: a tokenExpired signal handled outside a reconnection
\* always attempts re-authentication before anything else, and a successful
\* attempt emits reAuthenticated and keeps the token, the session and the
\* last expiry time.
C31_ReauthenticationFirst ==
  [][(ExpirySignalled => ReauthenticationStarted) /\ ReauthenticatedKeepsSession]_vars

\* C31 (amended): the re-authentication is attempted first only when the SDK
\* is logged in; when it is not, nothing is awaited and the handler goes
\* straight to the throttle. A successful attempt emits reAuthenticated and
\* keeps the token, the session and the last expiry time.
C31_ReauthenticationFirstWhenLoggedIn ==
  [][/\ (ExpirySignalled /\ loggedIn) => ReauthenticationStarted
     /\ (ExpirySignalled /\ ~loggedIn)
          => procs' = procs /\ ~reconnectInProgress'
     /\ ReauthenticatedKeepsSession]_vars

\* the re-authentication of a tokenExpired signal has succeeded through the
\* authenticator: the SDK is logged in with a valid token and no expiry was
\* recorded.
C31_Witness ==
  /\ out.op = "resume"
  /\ out.kind = "tokenExpired"
  /\ out.pc = "check2"
  /\ out.ret = "true"
  /\ Emissions(out, "reAuthenticated") = 1
  /\ loggedIn
  /\ token = "valid"
  /\ lastTokenExpired = NoTime

\* --------------------------------------------------------------- C32
\* the subscribe requests in flight whose `then` holds bucket b
SubscribesInFlight(b) ==
  {r \in 1 .. Len(rooms) :
     rooms[r].bucket = b /\ rooms[r].state = "subscribing"}

\* C32 as stated: for any interleaving of observe, stop and delete
\* notifications at most one subscribe request per bucket is in flight: no
\* resubscribe starts while the previous one of the bucket is pending.
C32_OneSubscribePerBucket ==
  \A b \in 1 .. Len(buckets) : Cardinality(SubscribesInFlight(b)) <= 1

\* --------------------------------------------------------------- C33
\* the buckets the observer holds in documentsByCollection
LiveBuckets == {documentsByCollection[c] : c \in Colls} \ {0}

\* C33: from the first confirmed subscription of a bucket until the bucket is
\* emptied or removed, the room the bucket holds is active: the previous
\* room is asked to close only once the new one is confirmed and held.
C33_NoGapWhileObserved ==
  \A b \in LiveBuckets :
    buckets[b].roomId # 0 => rooms[buckets[b].roomId].state = "active"

\* a resubscribe cycle has completed for a bucket that was already
\* subscribed: the new room is held and active, the previous one is closing.
C33_Witness ==
  /\ out.op = "subscribeResponse"
  /\ \E b \in LiveBuckets :
       /\ buckets[b].roomId = 2
       /\ rooms[2].state = "active"
       /\ rooms[1].bucket = b
       /\ rooms[1].state = "unsubscribing"

\* --------------------------------------------------------------- C34
\* the object tracked for document d of collection c before the step
TrackedObject(c, d) ==
  CHOOSE k \in DOMAIN rtDocuments :
    /\ rtDocuments[k].coll = c
    /\ rtDocuments[k].id = d
    /\ rtDocuments[k].tracked

\* a write merged the fields of the notification into the tracked object
\* and touched nothing else
WriteMerged(n) ==
  LET rt == TrackedObject(n.coll, n.id)
  IN /\ \A f \in Fields :
          rtDocuments'[rt].source[f] =
            IF f \in DOMAIN n.source THEN n.source[f]
            ELSE rtDocuments[rt].source[f]
     /\ rtDocuments' = [rtDocuments EXCEPT ![rt].source = rtDocuments'[rt].source]
     /\ UNCHANGED <<documentsByCollection, buckets, documents, rooms>>

\* a delete marked the tracked object, removed the id from tracking and from
\* its bucket, and asked for a room on the ids that are left
DeleteRemoved(n) ==
  LET rt == TrackedObject(n.coll, n.id)
      b == documentsByCollection[n.coll]
      left == buckets[b].ids \ {n.id}
  IN /\ rtDocuments'[rt].deleted
     /\ ~rtDocuments'[rt].tracked
     /\ \A k \in DOMAIN rtDocuments :
          k # rt => rtDocuments'[k].tracked = rtDocuments[k].tracked
     /\ documents' = documents \ {<<n.coll, n.id>>}
     /\ buckets' = [buckets EXCEPT ![b].ids = left]
     /\ \A c \in Colls \ {n.coll} : UNCHANGED documentsByCollection[c]
     /\ IF left = {}
        THEN documentsByCollection'[n.coll] = 0
        ELSE /\ documentsByCollection'[n.coll] = b
             /\ rooms' = Append(rooms, [coll |-> n.coll, filter |-> left,
                                        bucket |-> b,
                                        state |-> "subscribing"])

C38_UntrackedNotificationIgnored ==
  [][out'.op = "notifyUntracked"
       => /\ out'.r = "-"
          /\ UNCHANGED <<documentsByCollection, buckets, documents,
                         rtDocuments, rooms>>]_vars

\* --------------------------------------------------------------- C39
\* every object handed out and not given up is the tracked one of its key
ReturnedStaysTracked ==
  \A k \in DOMAIN rtDocuments :
    ~rtDocuments[k].gone => rtDocuments[k].tracked

\* a write reaches every object handed out for the document and not given up
ReturnedReceivesWrites ==
  (out'.op = "notify" /\ out'.n.event = "write")
    => \A k \in DOMAIN rtDocuments :
         (/\ rtDocuments[k].coll = out'.n.coll
          /\ rtDocuments[k].id = out'.n.id
          /\ ~rtDocuments[k].gone)
           => \A f \in DOMAIN out'.n.source :
                rtDocuments'[k].source[f] = out'.n.source[f]

\* C39 as stated: a realtime document returned by observe, get or mGet and
\* not since stopped or deleted remains the tracked record of its key and
\* receives the write notifications, whatever is observed later.
C39_ReturnedStaysTracked ==
  []ReturnedStaysTracked /\ [][ReturnedReceivesWrites]_vars

\* --------------------------------------------------------------- C40
\* the buckets that stop() or stop(index, collection) removed: they left
\* documentsByCollection with their ids
Stopped(b) == b \notin LiveBuckets /\ buckets[b].ids # {}

\* C40 as stated: once every pending operation has settled, no room is
\* active for a bucket that stop() or stop(index, collection) removed, even
\* when the subscribe that made the room was in flight during the stop.
C40_StopReleasesRoomInFlight ==
  Settled =>
    \A r \in 1 .. Len(rooms) :
      rooms[r].state = "active" => ~Stopped(rooms[r].bucket)

\* --------------------------------------------------------------- C35
\* the requests waiting in the offline queue
Queued == {offlineQueue[k].id : k \in 1 .. Len(offlineQueue)}

\* the requests handed to the transport
HandedToTransport == {sent[k].id : k \in 1 .. Len(sent)}

\* C35 as stated: a request whose promise is pending is in the offline
\* queue or was sent to the transport: whatever removes an entry from the
\* queue sends it or settles its promise.
C35_NoQueuedRequestLost ==
  \A i \in Ids :
    promises[i].caller = "pending" => i \in Queued \cup HandedToTransport

\* --------------------------------------------------------------- C36
\* C36 as stated: with the queue replayed automatically, a request that
\* query() hands to the transport at once, because a connect or reconnect
\* event has stopped the queuing, finds no earlier request still waiting in
\* the offline queue.
C36_NoOvertaking ==
  [][(autoReplay /\ out'.op = "query" /\ out'.r = "sent")
       => offlineQueue = <<>>]_vars

\* --------------------------------------------------------------- C37
\* playQueue() has just run on a ready transport, called by the application
\* or by the connect listener
PlayQueueCalled ==
  \/ out.op = "playQueue"
  \/ out.op = "connectEvent" /\ autoReplay

\* the entries the cleaning of playQueue() has just dropped
DroppedNow == {out.drops[k].id : k \in 1 .. Len(out.drops)}

Evicted(i) == promises[i].caller \in {"ttl", "maxsize"}

=============================================================================
